---- MODULE Spec2Model ----
(***************************************************************************)
(* liftmetrics: the revision-gated ingestion pipeline (SetupDatabase) and  *)
(* the transactional metrics pipeline (UpdateAllMetrics).                  *)
(*                                                                         *)
(* Strings are sequences of tokens: "openipf-d1-r1.csv" is                 *)
(* <<"openipf","-","d1","-","r1",".csv">>.  The string functions of the Go *)
(* standard library are written over token sequences.                      *)
(***************************************************************************)
EXTENDS Integers, Sequences, FiniteSets, TLC

\* ------------------------------------------------------------------ bounds
\* longest CSV body (number of data rows) a published archive carries
MaxRecords == 2
\* cap on the rows of the records table (PopulateDatabase on an existing store)
MaxRows == 2
\* cap on the calculators appended with AddCalculator
MaxExtra == 1

Nil == "nil"

\* ------------------------------------------------- strings (package strings)
RECURSIVE SeqMax(_)
SeqMax(s) == IF Len(s) = 1 THEN s[1]
             ELSE LET m == SeqMax(Tail(s)) IN IF s[1] >= m THEN s[1] ELSE m

HasPrefix(s, p) == Len(s) >= Len(p) /\ SubSeq(s, 1, Len(p)) = p

HasSuffix(s, p) == Len(s) >= Len(p) /\ SubSeq(s, Len(s) - Len(p) + 1, Len(s)) = p

TrimPrefix(s, p) == IF HasPrefix(s, p) THEN SubSeq(s, Len(p) + 1, Len(s)) ELSE s

TrimSuffix(s, p) == IF HasSuffix(s, p) THEN SubSeq(s, 1, Len(s) - Len(p)) ELSE s

RECURSIVE TrimLeft(_)
TrimLeft(s) == IF s # <<>> /\ s[1] = " " THEN TrimLeft(Tail(s)) ELSE s

RECURSIVE TrimRight(_)
TrimRight(s) == IF s # <<>> /\ s[Len(s)] = " " THEN TrimRight(SubSeq(s, 1, Len(s) - 1)) ELSE s

TrimSpace(s) == TrimRight(TrimLeft(s))

\* strings.Split(s, sep) for a one-token separator: always at least one part
RECURSIVE Split(_, _)
Split(s, sep) ==
    IF \A i \in 1..Len(s) : s[i] # sep THEN <<s>>
    ELSE LET i == CHOOSE k \in 1..Len(s) : s[k] = sep /\ \A j \in 1..(k - 1) : s[j] # sep
         IN <<SubSeq(s, 1, i - 1)>> \o Split(SubSeq(s, i + 1, Len(s)), sep)

\* ------------------------------------------------ paths (package filepath)
\* filepath.Base: the last path element
RECURSIVE Base(_)
Base(p) == IF \E i \in 1..Len(p) : p[i] = "/"
           THEN Base(SubSeq(p, (CHOOSE k \in 1..Len(p) : p[k] = "/") + 1, Len(p)))
           ELSE p

ExtTokens == {".csv", ".CSV", ".txt"}

\* filepath.Ext: the suffix beginning at the final dot of the last element
Ext(p) == IF p # <<>> /\ p[Len(p)] \in ExtTokens THEN <<p[Len(p)]>> ELSE <<>>

\* strings.EqualFold: equality under case folding
Fold(t) == IF t = ".CSV" THEN ".csv" ELSE t

EqualFold(s, t) == Len(s) = Len(t) /\ \A i \in 1..Len(s) : Fold(s[i]) = Fold(t[i])

\* byte order of the tokens, for the sorted listing of os.ReadDir
TokenOrder == <<"-", ".CSV", ".csv", ".txt", "/", "d1", "d2", "db", "meet", "openipf", "r1", "r2", "readme", "sub">>

TokenRank(t) == CHOOSE i \in 1..Len(TokenOrder) : TokenOrder[i] = t

RECURSIVE NameLess(_, _)
NameLess(a, b) ==
    IF a = <<>> THEN b # <<>>
    ELSE IF b = <<>> THEN FALSE
    ELSE IF a[1] = b[1] THEN NameLess(Tail(a), Tail(b))
    ELSE TokenRank(a[1]) < TokenRank(b[1])

\* ------------------------------------------------------------ directories
\* A directory is a function from entry names to contents: a sub-directory,
\* or a regular file with its text (the parsed rows, or malformed text).
SubDir == [kind |-> "dir"]

CSVText(rows) == [kind |-> "file", ok |-> TRUE, rows |-> rows]

Malformed == [kind |-> "file", ok |-> FALSE, rows |-> <<>>]

IsDir(dir, n) == dir[n].kind = "dir"

\* os.ReadDir: the entries sorted by file name
RECURSIVE SortNames(_)
SortNames(S) ==
    IF S = {} THEN <<>>
    ELSE LET m == CHOOSE x \in S : \A y \in S \ {x} : NameLess(x, y)
         IN <<m>> \o SortNames(S \ {m})

ReadDir(dir) == SortNames(DOMAIN dir)

WriteEntry(dir, n, c) == [x \in (DOMAIN dir) \cup {n} |-> IF x = n THEN c ELSE dir[x]]

RemoveEntries(dir, S) == [x \in (DOMAIN dir) \ S |-> dir[x]]

\* pkg.FindCSVFile: the first regular file "openipf*.csv" of the listing
RECURSIVE FindFirst(_, _)
FindFirst(dir, files) ==
    IF files = <<>> THEN [path |-> <<>>, err |-> "no matching CSV file found"]
    ELSE IF ~IsDir(dir, files[1]) /\ HasPrefix(files[1], <<"openipf">>) /\ HasSuffix(files[1], <<".csv">>)
         THEN [path |-> files[1], err |-> Nil]
         ELSE FindFirst(dir, Tail(files))

FindCSVFile(dir) == FindFirst(dir, ReadDir(dir))

\* ------------------------------------------------------------ RevisionGate
ErrRevisionNotFound == "revision not found"

\* The remote page: down when http.Get or the HTML parse fails, otherwise
\* the texts of its "ul li" elements in document order.
PageDown == [up |-> FALSE, items |-> <<>>]

Page(items) == [up |-> TRUE, items |-> items]

\* the callback of doc.Find("ul li").Each: a later marker overwrites an earlier
RECURSIVE ScanItems(_, _)
ScanItems(items, revision) ==
    IF items = <<>> THEN revision
    ELSE ScanItems(Tail(items),
                   IF HasPrefix(items[1], <<"Revision:">>)
                   THEN TrimSuffix(TrimSpace(TrimPrefix(items[1], <<"Revision:">>)), <<".">>)
                   ELSE revision)

\* getWebRevision without the check for an empty revision
getWebRevision_NoEmptyCheck(page) ==
    IF ~page.up THEN [rev |-> <<>>, err |-> "http error"]
    ELSE [rev |-> ScanItems(page.items, <<>>), err |-> Nil]

getWebRevision(page) ==
    IF ~page.up THEN [rev |-> <<>>, err |-> "http error"]
    ELSE LET revision == ScanItems(page.items, <<>>)
         IN IF revision = <<>> THEN [rev |-> <<>>, err |-> ErrRevisionNotFound]
            ELSE [rev |-> revision, err |-> Nil]

getCSVRevision(filePath) ==
    LET filename == Base(filePath)
        parts == Split(filename, "-")
    IN IF Len(parts) > 1 /\ TrimSuffix(parts[Len(parts)], <<".csv">>) # <<>>
       THEN [rev |-> TrimSuffix(parts[Len(parts)], <<".csv">>), err |-> Nil]
       ELSE [rev |-> <<>>, err |-> ErrRevisionNotFound]

\* the comparison turned round
NeedsUpdate_Inverted(websiteRevision, csvRevision) == websiteRevision = csvRevision

NeedsUpdate(websiteRevision, csvRevision) == websiteRevision # csvRevision

\* CheckRevision taking a failed look at the page for "nothing new"
CheckRevision_SwallowsWebError(csvFilePath, page) ==
    LET web == getWebRevision(page)
        csv == getCSVRevision(csvFilePath)
    IN IF web.err # Nil THEN [needsUpdate |-> FALSE, err |-> Nil]
       ELSE IF csv.err # Nil THEN [needsUpdate |-> FALSE, err |-> csv.err]
       ELSE [needsUpdate |-> NeedsUpdate(web.rev, csv.rev), err |-> Nil]

CheckRevision(csvFilePath, page) ==
    LET web == getWebRevision(page)
        csv == getCSVRevision(csvFilePath)
    IN IF web.err # Nil THEN [needsUpdate |-> FALSE, err |-> web.err]
       ELSE IF csv.err # Nil THEN [needsUpdate |-> FALSE, err |-> csv.err]
       ELSE [needsUpdate |-> NeedsUpdate(web.rev, csv.rev), err |-> Nil]

\* checkForUpdate dropping CheckRevision's answer
checkForUpdate_AlwaysUpdate(dir, page) ==
    LET found == FindCSVFile(dir)
    IN IF found.err # Nil THEN [needsUpdate |-> TRUE, err |-> Nil]
       ELSE LET r == CheckRevision(found.path, page)
            IN IF r.err # Nil THEN [needsUpdate |-> FALSE, err |-> r.err]
               ELSE [needsUpdate |-> TRUE, err |-> Nil]

checkForUpdate(dir, page) ==
    LET found == FindCSVFile(dir)
    IN IF found.err # Nil THEN [needsUpdate |-> TRUE, err |-> Nil]
       ELSE LET r == CheckRevision(found.path, page)
            IN IF r.err # Nil THEN [needsUpdate |-> FALSE, err |-> r.err]
               ELSE [needsUpdate |-> r.needsUpdate, err |-> Nil]

\* ------------------------------------------------------------ numbers
\* REAL values are exact rationals <<numerator, denominator>> in lowest terms
\* with a positive denominator; NULL is the SQL null.
NULL == <<>>

Abs(x) == IF x < 0 THEN -x ELSE x

RECURSIVE GCD(_, _)
GCD(a, b) == IF b = 0 THEN a ELSE GCD(b, a % b)

Rat(n, d) == LET g == GCD(Abs(n), Abs(d))
                 s == IF d < 0 THEN -1 ELSE 1
             IN <<(s * n) \div g, (s * d) \div g>>

Real(x) == <<x, 1>>

RatAdd(p, q) == Rat(p[1] * q[2] + q[1] * p[2], p[2] * q[2])

RatAbs(p) == IF p = NULL THEN NULL ELSE <<Abs(p[1]), p[2]>>

RECURSIVE RatSum(_)
RatSum(vals) == IF vals = <<>> THEN <<0, 1>> ELSE RatAdd(vals[1], RatSum(Tail(vals)))

\* the SQL aggregate AVG: nulls are skipped, no value at all gives NULL
NonNull(vals) == SelectSeq(vals, LAMBDA v : v # NULL)

AVG(vals) == LET nn == NonNull(vals)
             IN IF nn = <<>> THEN NULL
                ELSE LET t == RatSum(nn) IN Rat(t[1], t[2] * Len(nn))

\* the SQL scalar MAX of three values
MAX3(a, b, c) == SeqMax(<<a, b, c>>)

\* an attempt of zero weight counted as made
Positive_OrZero(x) == IF x >= 0 THEN 1 ELSE 0

\* CASE WHEN x > 0 THEN 1 ELSE 0 END
Positive(x) == IF x > 0 THEN 1 ELSE 0

\* ------------------------------------------------------------ the CSV rows
\* db.Record without its ID.  Weights are whole kilograms; a date is
\* <<year, month-day>>.
Row(name, sex, event, equipment, ageClass, weightClass, date, sq, bn, dl) ==
    [Name |-> name, Sex |-> sex, Event |-> event, Equipment |-> equipment, MeetName |-> "Open",
     AgeClass |-> ageClass, WeightClassKg |-> weightClass, Date |-> date,
     Squat1Kg |-> sq[1], Squat2Kg |-> sq[2], Squat3Kg |-> sq[3],
     Bench1Kg |-> bn[1], Bench2Kg |-> bn[2], Bench3Kg |-> bn[3],
     Deadlift1Kg |-> dl[1], Deadlift2Kg |-> dl[2], Deadlift3Kg |-> dl[3],
     Best3SquatKg |-> MAX3(sq[1], sq[2], sq[3]),
     Best3BenchKg |-> MAX3(bn[1], bn[2], bn[3]),
     Best3DeadliftKg |-> MAX3(dl[1], dl[2], dl[3]),
     TotalKg |-> MAX3(sq[1], sq[2], sq[3]) + MAX3(bn[1], bn[2], bn[3]) + MAX3(dl[1], dl[2], dl[3])]

RowList ==
    << Row("Ann", "F", "SBD", "Raw", "24-34", "63", <<"2023", "-07-04">>,
           <<-100, 105, 0>>, <<50, 55, -60>>, <<120, 130, 140>>),
       Row("Bob", "M", "B", "Raw", "", "93", <<"2024", "-03-09">>,
           <<0, 0, 0>>, <<100, -105, -105>>, <<0, 0, 0>>),
       Row("Ann", "F", "SBD", "Wraps", "24-34", "63", <<"2024", "-03-09">>,
           <<110, 110, -120>>, <<-60, -60, -60>>, <<150, -160, 0>>),
       Row("Cy", "M", "S", "Raw", "35-39", "93", <<"2024", "-05-01">>,
           <<200, 210, 220>>, <<0, 0, 0>>, <<0, 0, 0>>) >>

\* the CSV bodies a published archive can carry: the first rows of RowList
ArchiveDatasets == {SubSeq(RowList, 1, n) : n \in 0..MaxRecords}

\* the batches a caller of PopulateDatabase can pass: runs of RowList
Datasets == {SubSeq(RowList, w[1], w[1] + w[2] - 1) :
                 w \in {v \in (1..Len(RowList)) \X (0..MaxRecords) : v[1] + v[2] - 1 <= Len(RowList)}}

\* byte order of the text values, for the output order of GROUP BY
TextOrder == <<"", "2023", "2024", "24-34", "35-39", "63", "93", "Ann", "B", "Bob", "Cy", "F", "M", "Raw", "S", "SBD", "Wraps">>

TextRank(t) == CHOOSE i \in 1..Len(TextOrder) : TextOrder[i] = t

RECURSIVE KeyLess(_, _)
KeyLess(a, b) ==
    IF a = <<>> THEN b # <<>>
    ELSE IF b = <<>> THEN FALSE
    ELSE IF a[1] = b[1] THEN KeyLess(Tail(a), Tail(b))
    ELSE TextRank(a[1]) < TextRank(b[1])

RECURSIVE SortKeys(_)
SortKeys(S) ==
    IF S = {} THEN <<>>
    ELSE LET m == CHOOSE x \in S : \A y \in S \ {x} : KeyLess(x, y)
         IN <<m>> \o SortKeys(S \ {m})

Range(s) == {s[i] : i \in 1..Len(s)}

\* ------------------------------------------------------------ the store
\* A table is the sequence of its rows in rowid order.
NoDB == [absent |-> TRUE]

NoTx == [none |-> TRUE]

EmptyStore ==
    [records |-> <<>>, max_lifts |-> <<>>, lifter_metrics |-> <<>>,
     aggregated_metrics_sbd |-> <<>>, aggregated_metrics_bench |-> <<>>,
     weight_class_distribution |-> <<>>, age_group_performance |-> <<>>,
     performance_trends |-> <<>>, extra |-> <<>>]

DerivedTables == {"max_lifts", "lifter_metrics", "aggregated_metrics_sbd", "aggregated_metrics_bench",
                  "weight_class_distribution", "age_group_performance", "performance_trends"}

\* primary keys.  createTables gives lifter_metrics (ID, Date) and the two
\* aggregated tables Name; the schema of max_lifts, weight_class_distribution,
\* age_group_performance and performance_trends is in no source file, and
\* their keys are the natural keys the specification gives them.
KeyLifterMetrics == <<"ID", "Date">>

KeyAggregated == <<"Name">>

KeyMaxLifts == <<"ID">>

KeyWeightClassDistribution == <<"WeightClass", "Sex">>

KeyAgeGroupPerformance == <<"AgeClass", "Sex">>

KeyPerformanceTrends == <<"Year", "Sex">>

KeyOf(row, key) == [i \in 1..Len(key) |-> row[key[i]]]

\* a plain INSERT into a table without its primary key
InsertOrReplace_Appends(table, row, key) == table \o <<row>>

\* INSERT OR REPLACE of one row: the rows in conflict on the primary key are
\* deleted, then the row is inserted
InsertOrReplace(table, row, key) ==
    SelectSeq(table, LAMBDA old : KeyOf(old, key) # KeyOf(row, key)) \o <<row>>

RECURSIVE InsertOrReplaceAll(_, _, _)
InsertOrReplaceAll(table, rows, key) ==
    IF rows = <<>> THEN table
    ELSE InsertOrReplaceAll(InsertOrReplace(table, rows[1], key), Tail(rows), key)

\* uuid.New: an identifier no row of the store carries
NewUUID(st) ==
    LET used == {r.ID : r \in Range(st.records) \cup Range(st.max_lifts) \cup Range(st.lifter_metrics)}
    IN IF used = {} THEN 1 ELSE 1 + (CHOOSE m \in used : \A u \in used : u <= m)

WithID(row, id) == [f \in (DOMAIN row) \cup {"ID"} |-> IF f = "ID" THEN id ELSE row[f]]

WithoutID(rec) == [f \in (DOMAIN rec) \ {"ID"} |-> rec[f]]

\* ------------------------------------------------------------ calculators
Col(rows, f) == [i \in 1..Len(rows) |-> rows[i][f]]

ColReal(rows, f) == [i \in 1..Len(rows) |-> Real(rows[i][f])]

ColAbs(rows, f) == [i \in 1..Len(rows) |-> RatAbs(rows[i][f])]

\* MaxSuccessfulAttempts.Calculate
MaxLiftsRow(r) ==
    [ID |-> r.ID, Name |-> r.Name, Date |-> r.Date, MeetName |-> r.MeetName, Equipment |-> r.Equipment,
     Best3SquatKg |-> Real(r.Best3SquatKg), Best3BenchKg |-> Real(r.Best3BenchKg),
     Best3DeadliftKg |-> Real(r.Best3DeadliftKg), TotalKg |-> Real(r.TotalKg), Event |-> r.Event]

MaxSuccessfulAttempts(st) ==
    LET sel == SelectSeq(st.records, LAMBDA r : r.Event \in {"SBD", "B"})
        rows == [i \in 1..Len(sel) |-> MaxLiftsRow(sel[i])]
    IN [st EXCEPT !.max_lifts = InsertOrReplaceAll(st.max_lifts, rows, KeyMaxLifts)]

\* SuccessfulAttempts.Calculate: the columns it does not name are NULL
SuccessfulAttemptsRow(r) ==
    [ID |-> r.ID, Name |-> r.Name, Date |-> r.Date, Equipment |-> r.Equipment,
     SuccessfulSquatAttempts |-> Positive(r.Squat1Kg) + Positive(r.Squat2Kg) + Positive(r.Squat3Kg),
     SuccessfulBenchAttempts |-> Positive(r.Bench1Kg) + Positive(r.Bench2Kg) + Positive(r.Bench3Kg),
     SuccessfulDeadliftAttempts |-> Positive(r.Deadlift1Kg) + Positive(r.Deadlift2Kg) + Positive(r.Deadlift3Kg),
     TotalSuccessfulAttempts |-> Positive(r.Squat1Kg) + Positive(r.Squat2Kg) + Positive(r.Squat3Kg)
                               + Positive(r.Bench1Kg) + Positive(r.Bench2Kg) + Positive(r.Bench3Kg)
                               + Positive(r.Deadlift1Kg) + Positive(r.Deadlift2Kg) + Positive(r.Deadlift3Kg),
     Squat1Perc |-> NULL, Squat2Perc |-> NULL, Squat3Perc |-> NULL,
     Bench1Perc |-> NULL, Bench2Perc |-> NULL, Bench3Perc |-> NULL,
     Deadlift1Perc |-> NULL, Deadlift2Perc |-> NULL, Deadlift3Perc |-> NULL,
     Squat1To2Kg |-> NULL, Squat2To3Kg |-> NULL, Bench1To2Kg |-> NULL, Bench2To3Kg |-> NULL,
     Deadlift1To2Kg |-> NULL, Deadlift2To3Kg |-> NULL]

SuccessfulAttempts(st) ==
    LET rows == [i \in 1..Len(st.records) |-> SuccessfulAttemptsRow(st.records[i])]
    IN [st EXCEPT !.lifter_metrics = InsertOrReplaceAll(st.lifter_metrics, rows, KeyLifterMetrics)]

\* a percentage against the sum of the three attempts
Perc_OfSum(a, a1, a2, a3) ==
    LET m == Abs(a1) + Abs(a2) + Abs(a3)
    IN IF m = 0 THEN Real(0) ELSE Rat(Abs(a) * 100, m)

\* a percentage against the largest signed attempt
Perc_Signed(a, a1, a2, a3) ==
    LET m == MAX3(a1, a2, a3)
    IN IF m = 0 THEN Real(0) ELSE Rat(Abs(a) * 100, m)

\* LiftDifferences.Calculate
\* CASE WHEN MAX(ABS(a1), ABS(a2), ABS(a3)) = 0 THEN 0 ELSE ABS(a) / MAX(...) * 100 END
Perc(a, a1, a2, a3) ==
    LET m == MAX3(Abs(a1), Abs(a2), Abs(a3))
    IN IF m = 0 THEN Real(0) ELSE Rat(Abs(a) * 100, m)

LiftDifferencesRow(lm, r) ==
    [lm EXCEPT
     !.Squat1Perc = Perc(r.Squat1Kg, r.Squat1Kg, r.Squat2Kg, r.Squat3Kg),
     !.Squat2Perc = Perc(r.Squat2Kg, r.Squat1Kg, r.Squat2Kg, r.Squat3Kg),
     !.Squat3Perc = Perc(r.Squat3Kg, r.Squat1Kg, r.Squat2Kg, r.Squat3Kg),
     !.Bench1Perc = Perc(r.Bench1Kg, r.Bench1Kg, r.Bench2Kg, r.Bench3Kg),
     !.Bench2Perc = Perc(r.Bench2Kg, r.Bench1Kg, r.Bench2Kg, r.Bench3Kg),
     !.Bench3Perc = Perc(r.Bench3Kg, r.Bench1Kg, r.Bench2Kg, r.Bench3Kg),
     !.Deadlift1Perc = Perc(r.Deadlift1Kg, r.Deadlift1Kg, r.Deadlift2Kg, r.Deadlift3Kg),
     !.Deadlift2Perc = Perc(r.Deadlift2Kg, r.Deadlift1Kg, r.Deadlift2Kg, r.Deadlift3Kg),
     !.Deadlift3Perc = Perc(r.Deadlift3Kg, r.Deadlift1Kg, r.Deadlift2Kg, r.Deadlift3Kg),
     !.Squat1To2Kg = Real(Abs(r.Squat2Kg) - Abs(r.Squat1Kg)),
     !.Squat2To3Kg = Real(Abs(r.Squat3Kg) - Abs(r.Squat2Kg)),
     !.Bench1To2Kg = Real(Abs(r.Bench2Kg) - Abs(r.Bench1Kg)),
     !.Bench2To3Kg = Real(Abs(r.Bench3Kg) - Abs(r.Bench2Kg)),
     !.Deadlift1To2Kg = Real(Abs(r.Deadlift2Kg) - Abs(r.Deadlift1Kg)),
     !.Deadlift2To3Kg = Real(Abs(r.Deadlift3Kg) - Abs(r.Deadlift2Kg))]

\* the join condition shared by LiftDifferences and AggregatedMetrics
Joined(lm, r) == lm.ID = r.ID /\ lm.Date = r.Date /\ lm.Equipment = r.Equipment

\* an INSERT of filled rows in place of the UPDATE
LiftDifferences_Inserts(st) ==
    [st EXCEPT !.lifter_metrics =
       @ \o [i \in 1..Len(st.records) |->
               LiftDifferencesRow(SuccessfulAttemptsRow(st.records[i]), st.records[i])]]

LiftDifferences(st) ==
    LET upd(lm) == IF \E i \in 1..Len(st.records) : Joined(lm, st.records[i])
                   THEN LiftDifferencesRow(lm, st.records[CHOOSE i \in 1..Len(st.records) : Joined(lm, st.records[i])])
                   ELSE lm
    IN [st EXCEPT !.lifter_metrics = [i \in 1..Len(st.lifter_metrics) |-> upd(st.lifter_metrics[i])]]

\* lifter_metrics lm JOIN records r ON ... WHERE r.Event = event
JoinEvent(st, event) ==
    SelectSeq(st.lifter_metrics,
              LAMBDA lm : \E i \in 1..Len(st.records) : Joined(lm, st.records[i]) /\ st.records[i].Event = event)

\* AggregatedMetrics.calculateSBD
AggregatedSBDRow(g, rows) ==
    [Name |-> g[1], Equipment |-> g[2],
     AvgSuccessfulSquatAttempts |-> AVG(ColReal(rows, "SuccessfulSquatAttempts")),
     AvgSuccessfulBenchAttempts |-> AVG(ColReal(rows, "SuccessfulBenchAttempts")),
     AvgSuccessfulDeadliftAttempts |-> AVG(ColReal(rows, "SuccessfulDeadliftAttempts")),
     AvgTotalSuccessfulAttempts |-> AVG(ColReal(rows, "TotalSuccessfulAttempts")),
     AvgSquat1Perc |-> AVG(ColAbs(rows, "Squat1Perc")), AvgSquat2Perc |-> AVG(ColAbs(rows, "Squat2Perc")),
     AvgSquat3Perc |-> AVG(ColAbs(rows, "Squat3Perc")),
     AvgBench1Perc |-> AVG(ColAbs(rows, "Bench1Perc")), AvgBench2Perc |-> AVG(ColAbs(rows, "Bench2Perc")),
     AvgBench3Perc |-> AVG(ColAbs(rows, "Bench3Perc")),
     AvgDeadlift1Perc |-> AVG(ColAbs(rows, "Deadlift1Perc")), AvgDeadlift2Perc |-> AVG(ColAbs(rows, "Deadlift2Perc")),
     AvgDeadlift3Perc |-> AVG(ColAbs(rows, "Deadlift3Perc")),
     AvgSquat1To2Kg |-> AVG(ColAbs(rows, "Squat1To2Kg")), AvgSquat2To3Kg |-> AVG(ColAbs(rows, "Squat2To3Kg")),
     AvgBench1To2Kg |-> AVG(ColAbs(rows, "Bench1To2Kg")), AvgBench2To3Kg |-> AVG(ColAbs(rows, "Bench2To3Kg")),
     AvgDeadlift1To2Kg |-> AVG(ColAbs(rows, "Deadlift1To2Kg")),
     AvgDeadlift2To3Kg |-> AVG(ColAbs(rows, "Deadlift2To3Kg"))]

calculateSBD(st) ==
    LET j == JoinEvent(st, "SBD")
        groups == SortKeys({<<lm.Name, lm.Equipment>> : lm \in Range(j)})
        rows == [k \in 1..Len(groups) |->
                   AggregatedSBDRow(groups[k],
                                    SelectSeq(j, LAMBDA lm : <<lm.Name, lm.Equipment>> = groups[k]))]
    IN [st EXCEPT !.aggregated_metrics_sbd = InsertOrReplaceAll(st.aggregated_metrics_sbd, rows, KeyAggregated)]

\* AggregatedMetrics.calculateBench
AggregatedBenchRow(g, rows) ==
    [Name |-> g[1], Equipment |-> g[2],
     AvgSuccessfulBenchAttempts |-> AVG(ColReal(rows, "SuccessfulBenchAttempts")),
     AvgBench1Perc |-> AVG(ColAbs(rows, "Bench1Perc")), AvgBench2Perc |-> AVG(ColAbs(rows, "Bench2Perc")),
     AvgBench3Perc |-> AVG(ColAbs(rows, "Bench3Perc")),
     AvgBench1To2Kg |-> AVG(ColAbs(rows, "Bench1To2Kg")), AvgBench2To3Kg |-> AVG(ColAbs(rows, "Bench2To3Kg"))]

calculateBench(st) ==
    LET j == JoinEvent(st, "B")
        groups == SortKeys({<<lm.Name, lm.Equipment>> : lm \in Range(j)})
        rows == [k \in 1..Len(groups) |->
                   AggregatedBenchRow(groups[k],
                                      SelectSeq(j, LAMBDA lm : <<lm.Name, lm.Equipment>> = groups[k]))]
    IN [st EXCEPT !.aggregated_metrics_bench = InsertOrReplaceAll(st.aggregated_metrics_bench, rows, KeyAggregated)]

\* WeightClassDistribution.Calculate
WeightClassDistribution(st) ==
    LET groups == SortKeys({<<r.WeightClassKg, r.Sex>> : r \in Range(st.records)})
        rows == [k \in 1..Len(groups) |->
                   [WeightClass |-> groups[k][1], Sex |-> groups[k][2],
                    Count |-> Cardinality({r.Name : r \in {x \in Range(st.records) :
                                                            <<x.WeightClassKg, x.Sex>> = groups[k]}})]]
    IN [st EXCEPT !.weight_class_distribution =
                      InsertOrReplaceAll(st.weight_class_distribution, rows, KeyWeightClassDistribution)]

\* AgeGroupPerformance.Calculate
AgeGroupPerformance(st) ==
    LET sel == SelectSeq(st.records, LAMBDA r : r.AgeClass # "")
        groups == SortKeys({<<r.AgeClass, r.Sex>> : r \in Range(sel)})
        of(k) == SelectSeq(sel, LAMBDA r : <<r.AgeClass, r.Sex>> = groups[k])
        rows == [k \in 1..Len(groups) |->
                   [AgeClass |-> groups[k][1], Sex |-> groups[k][2],
                    AvgSquat |-> AVG(ColReal(of(k), "Best3SquatKg")),
                    AvgBench |-> AVG(ColReal(of(k), "Best3BenchKg")),
                    AvgDeadlift |-> AVG(ColReal(of(k), "Best3DeadliftKg")),
                    AvgTotal |-> AVG(ColReal(of(k), "TotalKg"))]]
    IN [st EXCEPT !.age_group_performance =
                      InsertOrReplaceAll(st.age_group_performance, rows, KeyAgeGroupPerformance)]

\* strftime('%Y', Date)
Year(date) == date[1]

\* PerformanceTrends.Calculate
PerformanceTrends(st) ==
    LET groups == SortKeys({<<Year(r.Date), r.Sex>> : r \in Range(st.records)})
        of(k) == SelectSeq(st.records, LAMBDA r : <<Year(r.Date), r.Sex>> = groups[k])
        rows == [k \in 1..Len(groups) |->
                   [Year |-> groups[k][1], Sex |-> groups[k][2],
                    AvgSquat |-> AVG(ColReal(of(k), "Best3SquatKg")),
                    AvgBench |-> AVG(ColReal(of(k), "Best3BenchKg")),
                    AvgDeadlift |-> AVG(ColReal(of(k), "Best3DeadliftKg")),
                    AvgTotal |-> AVG(ColReal(of(k), "TotalKg"))]]
    IN [st EXCEPT !.performance_trends =
                      InsertOrReplaceAll(st.performance_trends, rows, KeyPerformanceTrends)]

\* a calculator appended with AddCalculator: some implementation of the
\* MetricCalculator interface, here one that upserts a row count
ExtraCalculator(st) ==
    [st EXCEPT !.extra = InsertOrReplace(st.extra, [Name |-> "rows", Count |-> Len(st.records)], <<"Name">>)]

\* the registry with LiftDifferences ahead of SuccessfulAttempts
NewFeatureCalculator_Swapped ==
    <<"MaxSuccessfulAttempts", "LiftDifferences", "SuccessfulAttempts", "AggregatedMetrics",
      "WeightClassDistribution", "AgeGroupPerformance", "PerformanceTrends">>

\* NewFeatureCalculator: the registry in execution order.  AggregatedMetrics
\* is its two statements, calculateSBD then calculateBench.
NewFeatureCalculator ==
    <<"MaxSuccessfulAttempts", "SuccessfulAttempts", "LiftDifferences", "AggregatedMetrics",
      "WeightClassDistribution", "AgeGroupPerformance", "PerformanceTrends">>

\* AddCalculator: append
AddCalculator(calcs, calc) == Append(calcs, calc)

AggregatedMetrics(st) == calculateBench(calculateSBD(st))

Calculate(calc, st) ==
    CASE calc = "MaxSuccessfulAttempts" -> MaxSuccessfulAttempts(st)
      [] calc = "SuccessfulAttempts" -> SuccessfulAttempts(st)
      [] calc = "LiftDifferences" -> LiftDifferences(st)
      [] calc = "AggregatedMetrics" -> AggregatedMetrics(st)
      [] calc = "WeightClassDistribution" -> WeightClassDistribution(st)
      [] calc = "AgeGroupPerformance" -> AgeGroupPerformance(st)
      [] calc = "PerformanceTrends" -> PerformanceTrends(st)
      [] OTHER -> ExtraCalculator(st)

\* ------------------------------------------------------------ environment
ItemOther == <<"Download">>

ItemRevision(r) == <<"Revision:", " ", r, ".">>

\* the revision pages the site can serve
Pages ==
    { PageDown,
      Page(<<ItemOther>>),
      Page(<<ItemOther, ItemRevision("r1")>>),
      Page(<<ItemRevision("r1"), ItemOther, ItemRevision("r2")>>),
      Page(<<<<"Revision:", " ", ".">>>>) }

NameRev1 == <<"openipf", "-", "d1", "-", "r1", ".csv">>

NameRev2 == <<"openipf", "-", "d2", "-", "r2", ".csv">>

NameNoHyphen == <<"openipf", ".csv">>

NameUpper == <<"openipf", "-", "d1", "-", "r1", ".CSV">>

NameOther == <<"meet", ".csv">>

NameReadme == <<"readme", ".txt">>

Entry(name, text) == [name |-> name, text |-> text]

NoFile == [kind |-> "absent"]

Corrupt == [kind |-> "corrupt"]

Zip(entries) == [kind |-> "zip", entries |-> entries]

\* the archives the site can publish
Archives ==
    {Zip(<<Entry(NameReadme, Malformed), Entry(NameRev1, CSVText(ds))>>) : ds \in ArchiveDatasets}
    \cup { Zip(<<Entry(<<"sub", "/">> \o NameRev2, CSVText(<<RowList[2]>>)), Entry(NameRev1, Malformed)>>),
           Zip(<<Entry(NameReadme, Malformed)>>),
           Zip(<<Entry(NameRev1, Malformed)>>),
           Zip(<<Entry(NameNoHyphen, CSVText(<<RowList[1]>>))>>),
           Zip(<<Entry(NameUpper, CSVText(<<RowList[1]>>))>>),
           Zip(<<Entry(NameOther, CSVText(<<RowList[1]>>))>>) }

\* ------------------------------------------------------------ state
VARIABLES
    pc,           \* position of the running call, "idle" between calls
    call,         \* the top-level call running or last run
    result,       \* what the last call returned, "pending" while it runs
    dataDir,      \* the data directory
    zip,          \* the archive file at filePath
    db,           \* the committed store a reader sees
    tx,           \* the open transaction's view of the store
    records,      \* the parsed records of the running call
    idx,          \* loop index of PopulateDatabase / UpdateAllMetrics
    calculators,  \* fc.calculators
    gate,         \* what checkForUpdate fetched and answered in this run
    trace,        \* the operations executed by the running call, in order
    calcTrace,    \* the calculators executed by the running UpdateAllMetrics
    dbAtStart,    \* the committed store when the SetupDatabase run started
    commits,      \* changes of the committed store made since that run started
    dbAtCall,     \* the store when PopulateDatabase / UpdateAllMetrics was entered
    ret,          \* the db function that returned last, with its error
    sameRuns,     \* committed UpdateAllMetrics calls since records last changed
    net,          \* the request of a DownloadFile run step by step, and its context
    srv,          \* the serving layer: its name cache, its mutex, its refresh task and its readers
    req           \* a search request of the web server: its name list, its query and the response

vars == <<pc, call, result, dataDir, zip, db, tx, records, idx, calculators, gate, trace, calcTrace,
          dbAtStart, commits, dbAtCall, ret, sameRuns, net, srv, req>>

NoGate == [page |-> PageDown, fetched |-> FALSE, needsUpdate |-> FALSE, err |-> "not run"]

NoRet == [fn |-> "none", err |-> Nil]

\* no server constructed
NoServer == [up |-> "none"]

\* no search request made
NoRequest == [stage |-> "none"]

NoNet == [ctx |-> "live", conn |-> "up", requests |-> 0, headers |-> FALSE,
          resp |-> [status |-> 0, contentLength |-> <<0, 0>>, body |-> NoFile],
          arrived |-> 0, copied |-> 0]

Init ==
    /\ pc = "idle"
    /\ call = "none"
    /\ result = Nil
    /\ dataDir = [n \in {<<"db">>} |-> SubDir]
    /\ zip = NoFile
    /\ db = NoDB
    /\ tx = NoTx
    /\ records = <<>>
    /\ idx = 0
    /\ calculators = NewFeatureCalculator
    /\ gate = NoGate
    /\ trace = <<>>
    /\ calcTrace = <<>>
    /\ dbAtStart = NoDB
    /\ commits = 0
    /\ dbAtCall = NoDB
    /\ ret = NoRet
    /\ sameRuns = 0
    /\ net = NoNet
    /\ srv = NoServer
    /\ req = NoRequest

\* database/sql transactions
\* a commit that never lands
Commit_Lost(store, t) == store

Commit(store, t) == t

\* a rollback that keeps the writes
Rollback_Keeps(store, t) == t

Rollback(store, t) == store

\* an error return without the deferred rollback: the transaction stays open
DeferredRollback_Missing(t) == t

\* defer tx.Rollback() on a return before tx.Commit: the transaction is over
DeferredRollback(t) == NoTx

\* a change of the committed store, as a reader counts it
Bump(old, new) == IF new # old THEN 1 ELSE 0

\* the error SetupDatabase returns for a failed stage; a direct caller of the
\* db package gets the stage's own error
ErrDownloadFailed == "failed to download file"

ErrExtractFailed == "failed to extract CSV"

ErrCSVNotFound == "failed to find CSV file"

ErrCSVOpenFailed == "failed to open CSV file"

ErrCSVParseFailed == "failed to parse CSV file"

ErrDBCreateFailed == "failed to create database"

ErrDBPopulateFailed == "failed to populate database"

ErrCalculationFailed == "failed to perform database calculations"

\* SetupDatabase handing on the cause instead of its own stage error
StageErr_Cause(setupErr, ownErr) == ownErr

StageErr(setupErr, ownErr) == IF call = "SetupDatabase" THEN setupErr ELSE ownErr

\* ------------------------------------------------------------ SetupDatabase
\* SetupDatabase, lines 159-173: the gate and the early returns
CheckForUpdate ==
    /\ pc = "idle"
    /\ \E page \in Pages :
         LET r == checkForUpdate(dataDir, page)
         IN /\ gate' = [page |-> page, fetched |-> FindCSVFile(dataDir).err = Nil,
                         needsUpdate |-> r.needsUpdate, err |-> r.err]
            /\ IF r.err # Nil THEN pc' = "idle" /\ result' = r.err
               ELSE IF ~r.needsUpdate THEN pc' = "idle" /\ result' = Nil
               ELSE pc' = "download" /\ result' = "pending"
    /\ call' = "SetupDatabase"
    /\ trace' = <<"checkForUpdate">>
    /\ calcTrace' = <<>>
    /\ dbAtStart' = db
    /\ commits' = 0
    /\ records' = <<>>
    /\ ret' = NoRet
    /\ UNCHANGED <<srv, req, net, dataDir, zip, db, tx, idx, calculators, dbAtCall, sameRuns>>

\* resp.ContentLength is an int64: <<high, low>> stands for high * Limb + low
Limb == 65536

\* a threshold that also streams a body of exactly the threshold's length
Int64Greater_OrEqual(a, b) == a[1] > b[1] \/ (a[1] = b[1] /\ a[2] >= b[2])

Int64Greater(a, b) == a[1] > b[1] \/ (a[1] = b[1] /\ a[2] > b[2])

\* 2*1024*1024*1024 bytes
StreamThreshold == <<2 * 1024 * ((1024 * 1024) \div Limb), 0>>

\* ContentLength is -1 when the response declares no length
LengthUnknown == <<-1, Limb - 1>>

Lengths == {LengthUnknown, <<StreamThreshold[1] - 1, Limb - 1>>, StreamThreshold, <<StreamThreshold[1], 1>>}

\* resp.Status, the status line text
Status(code) ==
    CASE code = 200 -> "200 OK"
      [] code = 203 -> "203 Non-Authoritative Information"
      [] code = 404 -> "404 Not Found"

\* errors.Join(errors.New(msg), err)
Join(msg, cause) == msg \o "\n" \o cause

DeadlineExceeded == "context deadline exceeded"

ConnReset == "connection reset by peer"

DiskErr == "no space left on device"

\* what the server and the disk can do to one download; the fields that a
\* failure makes irrelevant are not varied
Responses ==
    [transport : {"fail"}, cause : {ConnReset, DeadlineExceeded}, status : {200},
     contentLength : {LengthUnknown}, body : {Corrupt}, complete : {TRUE}, disk : {"ok"}]
    \cup [transport : {"ok"}, cause : {Nil}, status : {203, 404}, contentLength : {LengthUnknown},
          body : {Corrupt}, complete : {TRUE}, disk : {"ok"}]
    \cup [transport : {"ok"}, cause : {Nil}, status : {200}, contentLength : Lengths,
          body : Archives \cup {Corrupt}, complete : {TRUE}, disk : {"ok"}]
    \cup [transport : {"ok"}, cause : {ConnReset, DeadlineExceeded}, status : {200},
          contentLength : Lengths, body : {Corrupt}, complete : {FALSE}, disk : {"ok"}]
    \cup [transport : {"ok"}, cause : {Nil}, status : {200}, contentLength : Lengths, body : {Corrupt},
          complete : {TRUE}, disk : {"createfail", "writefail"}]

\* removeExistingCSVFiles: the regular files "*.csv" of the archive's directory
ExistingCSVFiles(dir) ==
    SelectSeq(ReadDir(dir), LAMBDA n : ~IsDir(dir, n) /\ HasSuffix(n, <<".csv">>))

\* the body as the reads of it return it, piece by piece: an archive's
\* entries, in order
Chunks(file) == IF file.kind = "zip" THEN file.entries ELSE <<>>

FileOf(body, chunks) == IF body.kind = "zip" THEN Zip(chunks) ELSE body

\* io.Copy and io.ReadAll: every piece appended to the destination, in order
RECURSIVE CopyChunks(_, _)
CopyChunks(dst, chunks) ==
    IF chunks = <<>> THEN dst ELSE CopyChunks(Append(dst, chunks[1]), Tail(chunks))

\* a file opened for writing without truncation
Truncated_Keeps(old) == Chunks(old)

\* os.Create: the file truncated to no content
Truncated(old) == <<>>

\* downloadLargeFile: the body streamed to the file
downloadLargeFile(old, resp) ==
    IF resp.disk = "createfail"
    THEN [zip |-> old, err |-> Join("failed to create file", DiskErr), path |-> "streamed"]
    ELSE IF resp.disk = "writefail"
    THEN [zip |-> Corrupt, err |-> Join("failed to copy content to file", DiskErr), path |-> "streamed"]
    ELSE IF ~resp.complete
    THEN [zip |-> Corrupt, err |-> Join("failed to copy content to file", resp.cause), path |-> "streamed"]
    ELSE [zip |-> FileOf(resp.body, CopyChunks(Truncated(old), Chunks(resp.body))), err |-> Nil,
          path |-> "streamed"]

\* a status check that lets every status through
Download_AnyStatus(old, resp) ==
    IF resp.transport = "fail"
    THEN [zip |-> old, err |-> Join("failed to send request", resp.cause), path |-> "none"]
    ELSE IF Int64Greater(resp.contentLength, StreamThreshold) THEN downloadLargeFile(old, resp)
    ELSE [zip |-> FileOf(resp.body, CopyChunks(<<>>, Chunks(resp.body))), err |-> Nil, path |-> "buffered"]

\* DownloadFile after the directory was cleaned, lines 39-73: the archive
\* file it leaves, its error and the path it took
Download(old, resp) ==
    IF resp.transport = "fail"
    THEN [zip |-> old, err |-> Join("failed to send request", resp.cause), path |-> "none"]
    ELSE IF resp.status # 200
    THEN [zip |-> old, err |-> "bad status: " \o Status(resp.status), path |-> "none"]
    ELSE IF Int64Greater(resp.contentLength, StreamThreshold) THEN downloadLargeFile(old, resp)
    ELSE IF ~resp.complete
    THEN [zip |-> old, err |-> Join("failed to read response body", resp.cause), path |-> "buffered"]
    ELSE LET body == CopyChunks(<<>>, Chunks(resp.body))
         IN IF resp.disk = "createfail"
            THEN [zip |-> old, err |-> Join("failed to write file", DiskErr), path |-> "buffered"]
            ELSE IF resp.disk = "writefail"
            THEN [zip |-> Corrupt, err |-> Join("failed to write file", DiskErr), path |-> "buffered"]
            ELSE [zip |-> FileOf(resp.body, body), err |-> Nil, path |-> "buffered"]

\* DownloadFile, lines 31-74, on the directory of its path: the directory
\* and the archive file it leaves, its error, and the response it got
DownloadFileRuns(dir, old) ==
    LET csvs == ExistingCSVFiles(dir)
        none == [transport |-> "none"]
    IN { [dir |-> dir, zip |-> old, err |-> Join("failed to read directory", DiskErr),
          path |-> "none", resp |-> none] }
       \cup { [dir |-> RemoveEntries(dir, {csvs[i] : i \in 1..(k - 1)}), zip |-> old,
               err |-> Join("failed to remove existing CSV file", DiskErr),
               path |-> "none", resp |-> none] : k \in 1..Len(csvs) }
       \cup { LET d == Download(old, resp)
              IN [dir |-> RemoveEntries(dir, Range(csvs)), zip |-> d.zip, err |-> d.err,
                  path |-> d.path, resp |-> resp] : resp \in Responses }

\* SetupDatabase, lines 175-182, with DownloadFile.  removeExistingCSVFiles
\* cleans filepath.Dir(filePath), the directory of the archive: the data
\* directory when the archive lies in it, otherwise a directory that holds
\* nothing of the pipeline's.
DownloadFileStep(inDataDir, r) ==
    /\ pc = "download"
    /\ trace' = Append(trace, "DownloadFile")
    /\ dataDir' = (IF inDataDir THEN r.dir ELSE dataDir)
    /\ zip' = r.zip
    /\ IF r.err # Nil THEN pc' = "idle" /\ result' = ErrDownloadFailed
       ELSE pc' = "extract" /\ result' = result
    /\ UNCHANGED <<srv, req, net, call, db, tx, records, idx, calculators, gate, calcTrace, dbAtStart, commits,
                   dbAtCall, sameRuns>>

DownloadFileAt(inDataDir) ==
    \E r \in DownloadFileRuns(IF inDataDir THEN dataDir ELSE RemoveEntries(dataDir, DOMAIN dataDir), zip) :
      DownloadFileStep(inDataDir, r) /\ ret' = ret

\* the same step, with the error DownloadFile gave SetupDatabase kept
DownloadFileObserved ==
    \E r \in DownloadFileRuns(dataDir, zip) :
      DownloadFileStep(TRUE, r) /\ ret' = [fn |-> "DownloadFile", err |-> r.err]

\* main, lines 142 and 152: the archive lies in the data directory
DownloadFile == DownloadFileAt(TRUE)

\* a direct caller of DownloadFile
CallDownloadFile ==
    /\ pc = "idle"
    /\ \E r \in DownloadFileRuns(dataDir, zip) :
         /\ dataDir' = r.dir
         /\ zip' = r.zip
         /\ result' = r.err
         /\ ret' = [fn |-> "DownloadFile", err |-> r.err, path |-> r.path, resp |-> r.resp, old |-> zip]
    /\ call' = "DownloadFile"
    /\ trace' = <<"DownloadFile">>
    /\ UNCHANGED <<srv, req, net, pc, db, tx, records, idx, calculators, gate, calcTrace, dbAtStart, commits,
                   dbAtCall, sameRuns>>

\* an extraction that takes the last matching entry
FirstCSVEntry_Last(entries) ==
    LET S == {i \in 1..Len(entries) : EqualFold(Ext(entries[i].name), <<".csv">>)}
    IN IF S = {} THEN <<>> ELSE <<entries[CHOOSE i \in S : \A j \in S : j <= i]>>

\* ExtractCSVFromZip: the first entry whose extension is ".csv" in any case
RECURSIVE FirstCSVEntry(_)
FirstCSVEntry(entries) ==
    IF entries = <<>> THEN <<>>
    ELSE IF EqualFold(Ext(entries[1].name), <<".csv">>) THEN <<entries[1]>>
    ELSE FirstCSVEntry(Tail(entries))

\* what the file system can do to one extraction
ExtractIO == {"ok", "openfail", "mkdirfail", "entryfail", "createfail", "copyfail"}

\* ExtractCSVFromZip with extractCSVFile: the directory it leaves, the path
\* it returns (below the directory), its error, and whether os.MkdirAll ran
ExtractCSVFromZip(archive, dir, io) ==
    IF archive.kind # "zip" \/ io = "openfail"
    THEN [dir |-> dir, path |-> <<>>, err |-> "failed to open zip file", mkdir |-> FALSE]
    ELSE IF io = "mkdirfail"
    THEN [dir |-> dir, path |-> <<>>, err |-> "failed to create destination directory", mkdir |-> FALSE]
    ELSE LET e == FirstCSVEntry(archive.entries)
         IN IF e = <<>>
            THEN [dir |-> dir, path |-> <<>>, err |-> "no CSV file found in zip", mkdir |-> TRUE]
            ELSE LET extractedFilePath == Base(e[1].name)
                 IN IF io = "entryfail"
                    THEN [dir |-> dir, path |-> <<>>, err |-> "failed to open file in zip", mkdir |-> TRUE]
                    ELSE IF io = "createfail"
                    THEN [dir |-> dir, path |-> <<>>, err |-> "failed to create extracted file",
                          mkdir |-> TRUE]
                    ELSE IF io = "copyfail"
                    THEN [dir |-> WriteEntry(dir, extractedFilePath, Malformed), path |-> <<>>,
                          err |-> "failed to copy file content", mkdir |-> TRUE]
                    ELSE [dir |-> WriteEntry(dir, extractedFilePath, e[1].text),
                          path |-> extractedFilePath, err |-> Nil, mkdir |-> TRUE]

\* SetupDatabase, lines 184-188
ExtractCSV ==
    /\ pc = "extract"
    /\ trace' = Append(trace, "ExtractCSVFromZip")
    /\ \E io \in ExtractIO :
         LET x == ExtractCSVFromZip(zip, dataDir, io)
         IN /\ dataDir' = x.dir
            /\ IF x.err # Nil THEN pc' = "idle" /\ result' = ErrExtractFailed
               ELSE pc' = "load" /\ result' = result
    /\ gate' = NoGate
    /\ UNCHANGED <<srv, req, net, call, zip, db, tx, records, idx, calculators, calcTrace, dbAtStart, commits,
                   dbAtCall, ret, sameRuns>>

\* SetupDatabase, lines 190-210: FindCSVFile, os.Open, gocsv.UnmarshalFile
LoadCSV ==
    /\ pc = "load"
    /\ LET found == FindCSVFile(dataDir)
       IN IF found.err # Nil
          THEN /\ trace' = Append(trace, "FindCSVFile")
               /\ pc' = "idle" /\ result' = ErrCSVNotFound /\ records' = records
          ELSE \/ /\ trace' = trace \o <<"FindCSVFile", "os.Open">>
                  /\ pc' = "idle" /\ result' = ErrCSVOpenFailed /\ records' = records
               \/ /\ trace' = trace \o <<"FindCSVFile", "os.Open", "UnmarshalFile">>
                  /\ IF dataDir[found.path].ok
                     THEN pc' = "createdb" /\ result' = result /\ records' = dataDir[found.path].rows
                     ELSE pc' = "idle" /\ result' = ErrCSVParseFailed /\ records' = records
    /\ UNCHANGED <<srv, req, net, call, dataDir, zip, db, tx, idx, calculators, gate, calcTrace, dbAtStart, commits,
                   dbAtCall, ret, sameRuns>>

\* ------------------------------------------------------------ package db
\* CreateDatabase: the store it leaves and its error
CreateDatabase(store, deleteExisting, io) ==
    IF deleteExisting /\ io = "removefail"
    THEN [db |-> store, err |-> "failed to remove existing database file"]
    ELSE LET removed == IF deleteExisting THEN NoDB ELSE store
         IN IF io = "tablesfail" THEN [db |-> removed, err |-> "failed to create tables"]
            ELSE [db |-> IF removed = NoDB THEN EmptyStore ELSE removed, err |-> Nil]

RecordsChanged(old, new) == old = NoDB \/ new = NoDB \/ old.records # new.records

\* SetupDatabase, lines 212-219
CreateDB ==
    /\ pc = "createdb"
    /\ trace' = Append(trace, "CreateDatabase")
    /\ \E io \in {"ok", "removefail", "tablesfail"} :
         LET c == CreateDatabase(db, TRUE, io)
         IN /\ db' = c.db
            /\ commits' = commits + Bump(db, c.db)
            /\ sameRuns' = IF c.db # db THEN 0 ELSE sameRuns
            /\ IF c.err # Nil THEN pc' = "idle" /\ result' = ErrDBCreateFailed
               ELSE pc' = "populate" /\ result' = result
    /\ UNCHANGED <<srv, req, net, call, dataDir, zip, tx, records, idx, calculators, gate, calcTrace, dbAtStart,
                   dbAtCall, ret>>

\* PopulateDatabase: db.Begin and tx.Prepare
PopulateBegin ==
    /\ pc = "populate"
    /\ trace' = Append(trace, "PopulateDatabase")
    /\ dbAtCall' = db
    /\ \/ /\ tx' = db /\ idx' = 1 /\ pc' = "insert"
          /\ result' = result /\ ret' = NoRet
       \/ /\ tx' = NoTx /\ idx' = idx /\ pc' = "idle"
          /\ result' = StageErr(ErrDBPopulateFailed, "failed to begin transaction")
          /\ ret' = [fn |-> "PopulateDatabase", err |-> "failed to begin transaction"]
    /\ UNCHANGED <<srv, req, net, call, dataDir, zip, db, records, calculators, gate, calcTrace, dbAtStart, commits,
                   sameRuns>>

\* PopulateDatabase: one turn of the loop
PopulateInsert ==
    /\ pc = "insert"
    /\ idx <= Len(records)
    /\ \/ /\ tx' = [tx EXCEPT !.records = Append(@, WithID(records[idx], NewUUID(tx)))]
          /\ idx' = idx + 1
          /\ UNCHANGED <<pc, result, ret, db>>
       \/ \E e \in {"failed to insert record", "progress bar"} :
            /\ db' = Rollback(db, tx)
            /\ tx' = DeferredRollback(tx) /\ idx' = idx /\ pc' = "idle"
            /\ result' = StageErr(ErrDBPopulateFailed, e)
            /\ ret' = [fn |-> "PopulateDatabase", err |-> e]
    /\ UNCHANGED <<srv, req, net, call, dataDir, zip, records, calculators, gate, trace, calcTrace, dbAtStart, commits,
                   dbAtCall, sameRuns>>

\* PopulateDatabase: tx.Commit and the return; SetupDatabase goes on to
\* NewFeatureCalculator, lines 227-229
PopulateCommit ==
    /\ pc = "insert"
    /\ idx > Len(records)
    /\ tx' = NoTx
    /\ \/ /\ db' = Commit(db, tx)
          /\ ret' = [fn |-> "PopulateDatabase", err |-> Nil]
          /\ IF call = "SetupDatabase"
             THEN pc' = "metrics" /\ result' = result /\ calculators' = NewFeatureCalculator
             ELSE pc' = "idle" /\ result' = Nil /\ calculators' = calculators
       \/ /\ db' = Rollback(db, tx)
          /\ ret' = [fn |-> "PopulateDatabase", err |-> "failed to commit transaction"]
          /\ pc' = "idle" /\ calculators' = calculators
          /\ result' = StageErr(ErrDBPopulateFailed, "failed to commit transaction")
    /\ commits' = commits + Bump(db, db')
    /\ sameRuns' = IF RecordsChanged(db, db') THEN 0 ELSE sameRuns
    /\ UNCHANGED <<srv, req, net, call, dataDir, zip, records, idx, gate, trace, calcTrace, dbAtStart, dbAtCall>>

\* UpdateAllMetrics: db.BeginTx
MetricsBegin ==
    /\ pc = "metrics"
    /\ trace' = Append(trace, "UpdateAllMetrics")
    /\ dbAtCall' = db
    /\ calcTrace' = <<>>
    /\ \/ /\ tx' = db /\ idx' = 1 /\ pc' = "calc"
          /\ result' = result /\ ret' = NoRet
       \/ /\ tx' = NoTx /\ idx' = idx /\ pc' = "idle"
          /\ result' = StageErr(ErrCalculationFailed, "beginning transaction")
          /\ ret' = [fn |-> "UpdateAllMetrics", err |-> "beginning transaction"]
    /\ UNCHANGED <<srv, req, net, call, dataDir, zip, db, records, calculators, gate, dbAtStart, commits, sameRuns>>

\* the statements a calculator runs, in order
Statements(calc) ==
    IF calc = "AggregatedMetrics" THEN <<"AggregatedMetrics.calculateSBD", "AggregatedMetrics.calculateBench">>
    ELSE <<calc>>

\* UpdateAllMetrics: one turn of the loop over fc.calculators
CalculateStep ==
    /\ pc = "calc"
    /\ idx <= Len(calculators)
    /\ \/ /\ tx' = Calculate(calculators[idx], tx)
          /\ calcTrace' = calcTrace \o Statements(calculators[idx])
          /\ idx' = idx + 1
          /\ UNCHANGED <<pc, result, ret, db>>
       \/ \E failed \in 1..Len(Statements(calculators[idx])) :
            /\ calcTrace' = calcTrace \o SubSeq(Statements(calculators[idx]), 1, failed)
            /\ db' = Rollback(db, tx)
            /\ tx' = DeferredRollback(tx) /\ idx' = idx /\ pc' = "idle"
            /\ result' = StageErr(ErrCalculationFailed, "calculating")
            /\ ret' = [fn |-> "UpdateAllMetrics", err |-> "calculating"]
    /\ UNCHANGED <<srv, req, net, call, dataDir, zip, records, calculators, gate, trace, dbAtStart, commits,
                   dbAtCall, sameRuns>>

\* UpdateAllMetrics: tx.Commit and the return
MetricsCommit ==
    /\ pc = "calc"
    /\ idx > Len(calculators)
    /\ tx' = NoTx
    /\ pc' = "idle"
    /\ \/ /\ db' = Commit(db, tx)
          /\ ret' = [fn |-> "UpdateAllMetrics", err |-> Nil]
          /\ result' = Nil
          /\ sameRuns' = IF sameRuns < 2 THEN sameRuns + 1 ELSE sameRuns
       \/ /\ db' = Rollback(db, tx)
          /\ ret' = [fn |-> "UpdateAllMetrics", err |-> "committing transaction"]
          /\ result' = StageErr(ErrCalculationFailed, "committing transaction")
          /\ UNCHANGED sameRuns
    /\ commits' = commits + Bump(db, db')
    /\ UNCHANGED <<srv, req, net, call, dataDir, zip, records, idx, calculators, gate, trace, calcTrace, dbAtStart, dbAtCall>>

\* ------------------------------------------------------------ direct callers
\* TestPopulateDatabase: CreateDatabase(path, false), then PopulateDatabase
CallPopulateDatabase ==
    /\ pc = "idle"
    /\ \E ds \in Datasets :
         LET c == CreateDatabase(db, FALSE, "ok")
         IN /\ Len(c.db.records) + Len(ds) <= MaxRows
            /\ db' = c.db
            /\ records' = ds
    /\ call' = "PopulateDatabase"
    /\ pc' = "populate"
    /\ result' = "pending"
    /\ trace' = <<"CreateDatabase">>
    /\ calcTrace' = <<>>
    /\ ret' = NoRet
    /\ commits' = 0
    /\ UNCHANGED <<srv, req, net, dataDir, zip, tx, idx, calculators, gate, dbAtStart, dbAtCall, sameRuns>>

RECURSIVE WithExtras(_, _)
WithExtras(calcs, n) == IF n = 0 THEN calcs ELSE WithExtras(AddCalculator(calcs, "Extra"), n - 1)

\* NewFeatureCalculator, AddCalculator as often as wanted, UpdateAllMetrics
\* on the existing store
CallUpdateAllMetrics ==
    /\ pc = "idle"
    /\ db # NoDB
    /\ \E n \in 0..MaxExtra : calculators' = WithExtras(NewFeatureCalculator, n)
    /\ call' = "UpdateAllMetrics"
    /\ pc' = "metrics"
    /\ result' = "pending"
    /\ trace' = <<>>
    /\ calcTrace' = <<>>
    /\ ret' = NoRet
    /\ records' = <<>>
    /\ commits' = 0
    /\ UNCHANGED <<srv, req, net, dataDir, zip, db, tx, idx, gate, dbAtStart, dbAtCall, sameRuns>>

\* the program: runs of SetupDatabase, one after another
Next ==
    \/ CheckForUpdate
    \/ DownloadFile
    \/ ExtractCSV
    \/ LoadCSV
    \/ CreateDB
    \/ PopulateBegin
    \/ PopulateInsert
    \/ PopulateCommit
    \/ MetricsBegin
    \/ CalculateStep
    \/ MetricsCommit

Spec == Init /\ [][Next]_vars

\* SetupDatabase called with any archive path, as far as the CSV lookup of
\* the loader; the store plays no part in what the data directory holds
NextPaths ==
    \/ CheckForUpdate
    \/ \E inDataDir \in BOOLEAN : DownloadFileAt(inDataDir)
    \/ ExtractCSV
    \/ LoadCSV

SpecPaths == Init /\ [][NextPaths]_vars

\* direct callers of DownloadFile: the archive's directory holds files of
\* earlier runs
InitDownload ==
    /\ pc = "idle"
    /\ call = "none"
    /\ result = Nil
    /\ dataDir = [n \in {<<"db">>, NameRev1, NameOther, NameUpper} |->
                    IF n = <<"db">> THEN SubDir ELSE CSVText(<<RowList[1]>>)]
    /\ zip = NoFile
    /\ db = NoDB
    /\ tx = NoTx
    /\ records = <<>>
    /\ idx = 0
    /\ calculators = NewFeatureCalculator
    /\ gate = NoGate
    /\ trace = <<>>
    /\ calcTrace = <<>>
    /\ dbAtStart = NoDB
    /\ commits = 0
    /\ dbAtCall = NoDB
    /\ ret = NoRet
    /\ sameRuns = 0
    /\ net = NoNet
    /\ srv = NoServer
    /\ req = NoRequest

NextDownload == CallDownloadFile

SpecDownload == InitDownload /\ [][NextDownload]_vars

\* direct callers of ExtractCSVFromZip: any archive file, extracted into the
\* data directory or into a directory that does not exist yet
EmptyDir == RemoveEntries(dataDir, DOMAIN dataDir)

CallExtractCSVFromZip ==
    /\ pc = "idle"
    /\ \E io \in ExtractIO, absent \in BOOLEAN :
         LET before == IF absent THEN EmptyDir ELSE dataDir
             x == ExtractCSVFromZip(zip, before, io)
         IN /\ dataDir' = (IF absent THEN dataDir ELSE x.dir)
            /\ result' = x.err
            /\ ret' = [fn |-> "ExtractCSVFromZip", err |-> x.err, path |-> x.path, io |-> io,
                       before |-> before, after |-> x.dir, exists |-> ~absent \/ x.mkdir]
    /\ call' = "ExtractCSVFromZip"
    /\ trace' = <<"ExtractCSVFromZip">>
    /\ UNCHANGED <<srv, req, net, pc, zip, db, tx, records, idx, calculators, gate, calcTrace, dbAtStart,
                   commits, dbAtCall, sameRuns>>

InitExtract ==
    /\ pc = "idle"
    /\ call = "none"
    /\ result = Nil
    /\ dataDir \in { [n \in {<<"db">>} |-> SubDir],
                     [n \in {<<"db">>, NameRev1, NameOther} |->
                        IF n = <<"db">> THEN SubDir ELSE CSVText(<<RowList[2]>>)] }
    /\ zip \in Archives \cup {Corrupt, NoFile}
    /\ db = NoDB
    /\ tx = NoTx
    /\ records = <<>>
    /\ idx = 0
    /\ calculators = NewFeatureCalculator
    /\ gate = NoGate
    /\ trace = <<>>
    /\ calcTrace = <<>>
    /\ dbAtStart = NoDB
    /\ commits = 0
    /\ dbAtCall = NoDB
    /\ ret = NoRet
    /\ sameRuns = 0
    /\ net = NoNet
    /\ srv = NoServer
    /\ req = NoRequest

NextExtract == CallExtractCSVFromZip

SpecExtract == InitExtract /\ [][NextExtract]_vars

\* SetupDatabase up to the download, the cause of a failed download kept
NextDeadline ==
    \/ CheckForUpdate
    \/ DownloadFileObserved

SpecDeadline == Init /\ [][NextDeadline]_vars

\* ------------------------------------------ DownloadFile, call by call
\* DownloadFile with each of its blocking calls a step of its own, so that
\* the context can end while one of them waits.  net.arrived counts the
\* pieces of the body the connection has delivered, net.copied those the
\* read loop has taken.
CtxErr(ctx) == IF ctx = "cancelled" THEN "context canceled" ELSE DeadlineExceeded

\* a request made without the context
Done_Never(ctx) == FALSE

\* ctx.Done() is closed
Done(ctx) == ctx # "live"

StreamBodies ==
    { Zip(<<Entry(NameReadme, Malformed), Entry(NameRev1, CSVText(<<RowList[1]>>))>>),
      Zip(<<Entry(NameRev1, Malformed)>>) }

\* what the server can answer a request with
Answers ==
    [status : {404}, contentLength : {LengthUnknown}, body : {Corrupt}]
    \cup [status : {200}, contentLength : Lengths, body : StreamBodies]

Untouched == <<srv, req, db, tx, records, idx, calculators, gate, calcTrace, dbAtStart, commits, dbAtCall,
               ret, sameRuns>>

\* lines 31-44: the directory cleaned, the request made and sent
StartDownload ==
    /\ pc = "idle"
    /\ call' = "DownloadFile"
    /\ trace' = <<"DownloadFile">>
    /\ \/ \E r \in DownloadFileRuns(dataDir, zip) :
            /\ r.resp.transport = "none"
            /\ dataDir' = r.dir
            /\ pc' = "idle" /\ result' = r.err
            /\ net' = NoNet
       \/ /\ dataDir' = RemoveEntries(dataDir, Range(ExistingCSVFiles(dataDir)))
          /\ pc' = "request" /\ result' = "pending"
          /\ net' = [NoNet EXCEPT !.requests = 1]
    /\ UNCHANGED <<zip, Untouched>>

\* the caller cancels the context, or its deadline passes
ContextDone ==
    /\ pc \in {"request", "copy", "readall"}
    /\ net.ctx = "live"
    /\ \E c \in {"cancelled", "expired"} : net' = [net EXCEPT !.ctx = c]
    /\ UNCHANGED <<pc, call, result, dataDir, zip, trace, Untouched>>

\* the connection breaks
ConnectionBreaks ==
    /\ pc \in {"request", "copy", "readall"}
    /\ net.conn = "up"
    /\ net' = [net EXCEPT !.conn = "reset"]
    /\ UNCHANGED <<pc, call, result, dataDir, zip, trace, Untouched>>

\* the response's status line and headers arrive
ServerResponds ==
    /\ pc = "request"
    /\ net.ctx = "live" /\ net.conn = "up" /\ ~net.headers
    /\ \E a \in Answers : net' = [net EXCEPT !.headers = TRUE, !.resp = a]
    /\ UNCHANGED <<pc, call, result, dataDir, zip, trace, Untouched>>

\* one more piece of the body arrives
ServerSends ==
    /\ pc \in {"request", "copy", "readall"}
    /\ net.ctx = "live" /\ net.conn = "up" /\ net.headers
    /\ net.arrived < Len(Chunks(net.resp.body))
    /\ net' = [net EXCEPT !.arrived = @ + 1]
    /\ UNCHANGED <<pc, call, result, dataDir, zip, trace, Untouched>>

\* lines 44-61 and 86-89: http.DefaultClient.Do returns; the status and the
\* length are looked at, the streamed path creates its file
DoReturns ==
    /\ pc = "request"
    /\ \/ /\ Done(net.ctx) \/ net.conn = "reset"
          /\ pc' = "idle" /\ zip' = zip
          /\ result' = Join("failed to send request",
                            IF Done(net.ctx) THEN CtxErr(net.ctx) ELSE ConnReset)
       \/ /\ net.headers
          /\ IF net.resp.status # 200
             THEN /\ pc' = "idle" /\ zip' = zip
                  /\ result' = "bad status: " \o Status(net.resp.status)
             ELSE IF Int64Greater(net.resp.contentLength, StreamThreshold)
             THEN \/ /\ pc' = "idle" /\ zip' = zip
                     /\ result' = Join("failed to create file", DiskErr)
                  \/ /\ pc' = "copy" /\ result' = result
                     /\ zip' = FileOf(net.resp.body, Truncated(zip))
             ELSE pc' = "readall" /\ result' = result /\ zip' = zip
    /\ UNCHANGED <<call, dataDir, trace, net, Untouched>>

\* lines 62-73 and 92-98: one Read of the body inside io.ReadAll or io.Copy,
\* and what follows the last one
ReadBody ==
    /\ pc \in {"copy", "readall"}
    /\ LET chunks == Chunks(net.resp.body)
       IN \/ \* a piece is there: io.Copy writes it, io.ReadAll keeps it
             /\ net.copied < net.arrived
             /\ \/ /\ net' = [net EXCEPT !.copied = @ + 1]
                   /\ pc' = pc /\ result' = result
                   /\ zip' = IF pc = "copy"
                             THEN FileOf(net.resp.body, Append(Chunks(zip), chunks[net.copied + 1]))
                             ELSE zip
                \/ /\ pc = "copy"
                   /\ pc' = "idle" /\ zip' = zip /\ net' = net
                   /\ result' = Join("failed to copy content to file", DiskErr)
          \/ \* the body ended
             /\ net.copied = Len(chunks)
             /\ pc' = "idle" /\ net' = net
             /\ IF pc = "copy" THEN zip' = zip /\ result' = Nil
                ELSE \/ zip' = FileOf(net.resp.body, CopyChunks(<<>>, chunks)) /\ result' = Nil
                     \/ zip' = zip /\ result' = Join("failed to write file", DiskErr)
          \/ \* the Read fails
             /\ net.copied < Len(chunks)
             /\ Done(net.ctx) \/ net.conn = "reset"
             /\ pc' = "idle" /\ zip' = zip /\ net' = net
             /\ result' = Join(IF pc = "copy" THEN "failed to copy content to file"
                               ELSE "failed to read response body",
                               IF Done(net.ctx) THEN CtxErr(net.ctx) ELSE ConnReset)
    /\ UNCHANGED <<call, dataDir, trace, Untouched>>

NextCancel ==
    \/ StartDownload
    \/ ContextDone
    \/ ConnectionBreaks
    \/ ServerResponds
    \/ ServerSends
    \/ DoReturns
    \/ ReadBody

\* DownloadFile runs on a goroutine of its own that is never starved: a call
\* of it that can return does return
SpecCancel == InitDownload /\ [][NextCancel]_vars /\ WF_vars(DoReturns) /\ WF_vars(ReadBody)

\* package db under its direct callers
NextDB ==
    \/ CallPopulateDatabase
    \/ CallUpdateAllMetrics
    \/ PopulateBegin
    \/ PopulateInsert
    \/ PopulateCommit
    \/ MetricsBegin
    \/ CalculateStep
    \/ MetricsCommit

SpecDB == Init /\ [][NextDB]_vars

\* UpdateAllMetrics on a store of one record; one of its lifts has any three
\* of these attempts: failed (negative), not taken (zero), made
Weights == {-105, 0, 100}

RowWith(lift, t) ==
    Row("Ann", "F", "SBD", "Raw", "24-34", "63", <<"2023", "-07-04">>,
        IF lift = "Squat" THEN t ELSE <<110, 110, -120>>,
        IF lift = "Bench" THEN t ELSE <<50, 55, -60>>,
        IF lift = "Deadlift" THEN t ELSE <<120, 130, 140>>)

InitRow ==
    /\ pc = "idle"
    /\ call = "none"
    /\ result = Nil
    /\ dataDir = [n \in {<<"db">>} |-> SubDir]
    /\ zip = NoFile
    /\ \E lift \in {"Squat", "Bench", "Deadlift"}, t \in Weights \X Weights \X Weights :
         db = [EmptyStore EXCEPT !.records = <<WithID(RowWith(lift, t), 1)>>]
    /\ tx = NoTx
    /\ records = <<>>
    /\ idx = 0
    /\ calculators = NewFeatureCalculator
    /\ gate = NoGate
    /\ trace = <<>>
    /\ calcTrace = <<>>
    /\ dbAtStart = NoDB
    /\ commits = 0
    /\ dbAtCall = NoDB
    /\ ret = NoRet
    /\ sameRuns = 0
    /\ net = NoNet
    /\ srv = NoServer
    /\ req = NoRequest

NextRow ==
    \/ CallUpdateAllMetrics
    \/ MetricsBegin
    \/ CalculateStep
    \/ MetricsCommit

SpecRow == InitRow /\ [][NextRow]_vars

\* ------------------------------------------------------------ vocabulary of the claims
IsPrefix(s, t) == Len(s) <= Len(t) /\ SubSeq(t, 1, Len(s)) = s

\* the local CSVs of the data directory
LocalCSVs(dir) == {n \in DOMAIN dir : dir[n].kind = "file" /\ n[1] = "openipf" /\ n[Len(n)] = ".csv"}

\* the revision embedded in a file name: what follows the last hyphen, less
\* the extension; <<>> when there is none
FilenameRevision(n) ==
    LET hy == {i \in 1..Len(n) : n[i] = "-"}
    IN IF hy = {} THEN <<>>
       ELSE LET last == CHOOSE i \in hy : \A j \in hy : j <= i
            IN SelectSeq(SubSeq(n, last + 1, Len(n)), LAMBDA t : t # ".csv")

\* the revision the remote page announces; <<>> when it announces none
MarkerItems(page) == {i \in 1..Len(page.items) : page.items[i][1] = "Revision:"}

RemoteRevision(page) ==
    IF ~page.up \/ MarkerItems(page) = {} THEN <<>>
    ELSE LET last == CHOOSE i \in MarkerItems(page) : \A j \in MarkerItems(page) : j <= i
         IN SelectSeq(Tail(page.items[last]), LAMBDA t : t \notin {" ", "."})

\* both revisions were obtained and are equal
RevisionsEqual(dir, page) ==
    /\ LocalCSVs(dir) # {}
    /\ RemoteRevision(page) # <<>>
    /\ \A n \in LocalCSVs(dir) : FilenameRevision(n) = RemoteRevision(page)

\* both revisions were obtained and differ
RevisionsDiffer(dir, page) ==
    /\ LocalCSVs(dir) # {}
    /\ RemoteRevision(page) # <<>>
    /\ \A n \in LocalCSVs(dir) : FilenameRevision(n) # <<>> /\ FilenameRevision(n) # RemoteRevision(page)

\* a committed, computed generation
PreviousGeneration(d) == d # NoDB /\ d.records # <<>> /\ d.lifter_metrics # <<>>

\* the states in which the gate has just answered: the data directory is
\* still the one it looked at
GateAnswered == call = "SetupDatabase" /\ trace = <<"checkForUpdate">>

UpdateRequired == gate.err = Nil /\ gate.needsUpdate

UpToDate == gate.err = Nil /\ ~gate.needsUpdate

\* ------------------------------------------------------------ C1
\* C1: a SetupDatabase run whose gate finds a local CSV with the remote
\* revision returns success at once: no later stage runs (the trace is the
\* gate alone and the run is over) and the data directory, the archive and
\* the store are unchanged.
C1_NoChangeStopsTheChain ==
    [][(pc = "idle" /\ call' = "SetupDatabase" /\ RevisionsEqual(dataDir, gate'.page))
       => (/\ pc' = "idle" /\ result' = Nil
           /\ trace' = <<"checkForUpdate">>
           /\ dataDir' = dataDir /\ zip' = zip /\ db' = db /\ tx' = tx)]_vars

C1_Witness ==
    /\ GateAnswered /\ pc = "idle" /\ result = Nil
    /\ RevisionsEqual(dataDir, gate.page)
    /\ PreviousGeneration(db) /\ zip.kind = "zip"

\* ------------------------------------------------------------ C2
\* C2: the gate answers "update required" exactly when no local CSV is found
\* or both revisions were obtained and differ; when both were obtained and
\* are equal it answers "no update".
C2_GateDecision ==
    GateAnswered =>
        /\ UpdateRequired <=> (LocalCSVs(dataDir) = {} \/ RevisionsDiffer(dataDir, gate.page))
        /\ RevisionsEqual(dataDir, gate.page) => UpToDate

C2_Witness ==
    /\ GateAnswered /\ UpdateRequired
    /\ RevisionsDiffer(dataDir, gate.page)

\* ------------------------------------------------------------ C3
\* C3: the gate answers "up to date" only when both revisions were obtained
\* and are equal; when it consults the page and the page is down, carries no
\* marker, or the local file name carries no revision, checkForUpdate fails
\* and SetupDatabase returns that error; in none of these cases is the answer
\* a successful "up to date".
NoSignal(dir, page) ==
    \/ RemoteRevision(page) = <<>>
    \/ \E n \in LocalCSVs(dir) : FilenameRevision(n) = <<>>

NoMarker(page) == page.up /\ MarkerItems(page) = {}

\* C4 as claimed: whenever the page carries no marker item the run fails with
\* ErrRevisionNotFound and DownloadFile is not invoked, whatever the data
\* directory holds.
C4_Original ==
    (call = "SetupDatabase" /\ NoMarker(gate.page))
        => ("DownloadFile" \notin Range(trace) /\ (pc = "idle" => result = ErrRevisionNotFound))

\* C4 amended: when a local CSV is found and the page carries no marker item,
\* the run fails at the gate with ErrRevisionNotFound and DownloadFile is not
\* invoked.
C4_Amended ==
    [][(pc = "idle" /\ call' = "SetupDatabase" /\ LocalCSVs(dataDir) # {} /\ NoMarker(gate'.page))
       => (pc' = "idle" /\ result' = ErrRevisionNotFound /\ trace' = <<"checkForUpdate">>)]_vars

C4_Witness ==
    /\ GateAnswered /\ NoMarker(gate.page) /\ LocalCSVs(dataDir) # {}
    /\ pc = "idle" /\ result = ErrRevisionNotFound

\* ------------------------------------------------------------ C5
\* C5: after a SetupDatabase run that failed at any stage, the records table
\* and every derived table hold what they held before the run.
C5_FailedRunKeepsGeneration ==
    (call = "SetupDatabase" /\ pc = "idle" /\ result # Nil /\ PreviousGeneration(dbAtStart))
        => db = dbAtStart

\* ------------------------------------------------------------ C6
RECURSIVE RunAll(_, _)
RunAll(calcs, st) == IF calcs = <<>> THEN st ELSE RunAll(Tail(calcs), Calculate(calcs[1], st))

\* the store holds exactly the generation of the parsed records
IsGenerationOf(d, recs) ==
    /\ d # NoDB
    /\ [i \in 1..Len(d.records) |-> WithoutID(d.records[i])] = recs
    /\ d = RunAll(NewFeatureCalculator, [EmptyStore EXCEPT !.records = d.records])

\* C6: all through a SetupDatabase run a reader sees the whole previous
\* generation or the whole new one, and the run changes the committed store
\* at one point only.
C6_ReaderSeesWholeGeneration ==
    (call = "SetupDatabase" /\ PreviousGeneration(dbAtStart))
        => ((db = dbAtStart \/ IsGenerationOf(db, records)) /\ commits <= 1)

\* ------------------------------------------------------------ C7
AllStatements(calcs) ==
    IF calcs = <<>> THEN <<>>
    ELSE LET F[i \in 0..Len(calcs)] == IF i = 0 THEN <<>> ELSE F[i - 1] \o Statements(calcs[i])
         IN F[Len(calcs)]

\* C7: UpdateAllMetrics commits nothing while calculators run, commits only
\* with every registered calculator executed, and when a calculator or the
\* commit fails it returns the error with no later calculator executed and
\* the store as it was before the call.
C7_MetricsAtomic ==
    /\ pc = "calc" => db = dbAtCall
    /\ (ret.fn = "UpdateAllMetrics" /\ db # dbAtCall)
          => (ret.err = Nil /\ calcTrace = AllStatements(calculators))
    /\ (ret.fn = "UpdateAllMetrics" /\ ret.err # Nil)
          => /\ db = dbAtCall /\ tx = NoTx /\ pc = "idle" /\ result # Nil
             /\ IsPrefix(calcTrace, AllStatements(calculators))
             /\ ret.err = "calculating" => calcTrace = AllStatements(SubSeq(calculators, 1, idx - 1))
                                              \o SubSeq(Statements(calculators[idx]), 1,
                                                        Len(calcTrace) - Len(AllStatements(SubSeq(calculators, 1, idx - 1))))

C7_Witness ==
    /\ ret.fn = "UpdateAllMetrics" /\ ret.err = "calculating"
    /\ Len(calcTrace) >= 4
    /\ db.records # <<>> /\ db.lifter_metrics = <<>>

\* ------------------------------------------------------------ C8
C8_Order ==
    <<"MaxSuccessfulAttempts", "SuccessfulAttempts", "LiftDifferences",
      "AggregatedMetrics.calculateSBD", "AggregatedMetrics.calculateBench",
      "WeightClassDistribution", "AgeGroupPerformance", "PerformanceTrends">>

\* C8: the calculators of one UpdateAllMetrics call run one at a time in the
\* fixed order, each once, the appended ones after them, all in the call's
\* one transaction; a failure ends the loop.
C8_FixedOrder ==
    /\ \E n \in 0..MaxExtra : IsPrefix(calcTrace, C8_Order \o [i \in 1..n |-> "Extra"])
    /\ pc = "calc" => (tx # NoTx /\ Len(calcTrace) = Len(AllStatements(SubSeq(calculators, 1, idx - 1))))
    /\ (ret.fn = "UpdateAllMetrics" /\ ret.err = Nil)
          => \E n \in 0..MaxExtra :
               /\ Len(calculators) = 7 + n
               /\ calcTrace = C8_Order \o [i \in 1..n |-> "Extra"]

C8_Witness ==
    /\ ret.fn = "UpdateAllMetrics" /\ ret.err = Nil
    /\ Len(calcTrace) = 9 /\ calcTrace[9] = "Extra"
    /\ db.extra # <<>>

\* ------------------------------------------------------------ C9
\* C9: PopulateDatabase shows no row before it commits; on success the
\* records table is the old rows followed by one new row per input record,
\* each under a new identifier; on an error it is the old table.
C9_PopulateAllOrNothing ==
    /\ pc = "insert" => db = dbAtCall
    /\ ret.fn = "PopulateDatabase" =>
         IF ret.err = Nil
         THEN /\ Len(db.records) = Len(dbAtCall.records) + Len(records)
              /\ SubSeq(db.records, 1, Len(dbAtCall.records)) = dbAtCall.records
              /\ \A i \in 1..Len(records) : WithoutID(db.records[Len(dbAtCall.records) + i]) = records[i]
              /\ \A i, j \in 1..Len(db.records) : db.records[i].ID = db.records[j].ID => i = j
         ELSE db = dbAtCall

C9_Witness ==
    /\ ret.fn = "PopulateDatabase" /\ ret.err = "failed to insert record"
    /\ idx = 2 /\ Len(records) = 2
    /\ pc = "idle"

\* ------------------------------------------------------------ C10
\* C10: an UpdateAllMetrics call that commits on a records table unchanged
\* since the previous committed call leaves every derived table as it was.
C10_Idempotent ==
    [][(pc = "calc" /\ pc' = "idle" /\ ret'.err = Nil /\ sameRuns >= 1)
       => \A t \in DerivedTables : db'[t] = db[t]]_vars

C10_Witness ==
    /\ sameRuns = 2 /\ ret.fn = "UpdateAllMetrics" /\ ret.err = Nil
    /\ Len(db.records) = 2
    /\ db.aggregated_metrics_sbd # <<>> /\ db.aggregated_metrics_bench # <<>>

\* ------------------------------------------------------------ C11
\* the calls of one SetupDatabase run, in the order of the stages
C11_CallOrder ==
    <<"checkForUpdate", "DownloadFile", "ExtractCSVFromZip", "FindCSVFile", "os.Open",
      "UnmarshalFile", "CreateDatabase", "PopulateDatabase", "UpdateAllMetrics">>

\* the stage a call belongs to
C11_StageOf(c) ==
    CASE c = "checkForUpdate" -> "RevisionGate"
      [] c = "DownloadFile" -> "Downloader"
      [] c = "ExtractCSVFromZip" -> "ArchiveExtractor"
      [] c \in {"FindCSVFile", "os.Open", "UnmarshalFile", "CreateDatabase", "PopulateDatabase"} -> "RecordLoader"
      [] c = "UpdateAllMetrics" -> "MetricsPipeline"

\* the errors by which a caller tells the stage that failed
C11_ErrorsOf(c) ==
    CASE c = "checkForUpdate" -> {"http error", ErrRevisionNotFound}
      [] c = "DownloadFile" -> {ErrDownloadFailed}
      [] c = "ExtractCSVFromZip" -> {ErrExtractFailed}
      [] c = "FindCSVFile" -> {ErrCSVNotFound}
      [] c = "os.Open" -> {ErrCSVOpenFailed}
      [] c = "UnmarshalFile" -> {ErrCSVParseFailed}
      [] c = "CreateDatabase" -> {ErrDBCreateFailed}
      [] c = "PopulateDatabase" -> {ErrDBPopulateFailed}
      [] c = "UpdateAllMetrics" -> {ErrCalculationFailed}

\* C11: the calls of a SetupDatabase run are an initial part of the fixed
\* order, so every stage runs at most once and in order; a run that has
\* failed stopped at the failed call and returns an error of that call's
\* stage, which is the error of no other stage; a run that succeeded stopped
\* at the gate or ran every stage.
C11_StagesInOrder ==
    call = "SetupDatabase" =>
        /\ trace # <<>> /\ IsPrefix(trace, C11_CallOrder)
        /\ (pc = "idle" /\ result # Nil) =>
              /\ result \in C11_ErrorsOf(trace[Len(trace)])
              /\ \A c \in Range(C11_CallOrder) :
                    result \in C11_ErrorsOf(c) => C11_StageOf(c) = C11_StageOf(trace[Len(trace)])
        /\ (pc = "idle" /\ result = Nil) => trace \in {<<"checkForUpdate">>, C11_CallOrder}
        /\ pc # "idle" => result = "pending"

C11_Witness ==
    /\ call = "SetupDatabase" /\ pc = "idle"
    /\ result = ErrDBPopulateFailed
    /\ trace = SubSeq(C11_CallOrder, 1, 8)
    /\ PreviousGeneration(dbAtStart)

\* ------------------------------------------------------------ C12
\* the file the extraction of this run wrote: the first CSV entry of the
\* downloaded archive under its base name
C12_Fresh ==
    LET csv == {i \in 1..Len(zip.entries) : Fold(zip.entries[i].name[Len(zip.entries[i].name)]) = ".csv"}
        first == CHOOSE i \in csv : \A j \in csv : i <= j
        name == zip.entries[first].name
        slashes == {i \in 1..Len(name) : name[i] = "/"}
    IN IF slashes = {} THEN name
       ELSE SubSeq(name, 1 + (CHOOSE i \in slashes : \A j \in slashes : j <= i), Len(name))

\* the extraction of this run has written its file
C12_Extracted ==
    /\ call = "SetupDatabase" /\ Len(trace) >= 3
    /\ pc = "load" \/ Len(trace) >= 4

\* C12: once a run has extracted its CSV, the only CSV a lookup can find in
\* the data directory, in this run and at the gate of the next, is the one
\* just extracted, wherever the archive was put.
C12_NoStaleCSV ==
    C12_Extracted => LocalCSVs(dataDir) \subseteq {C12_Fresh}

\* ------------------------------------------------------------ C13
\* DownloadFile received a response
C13_Answered == ret.fn = "DownloadFile" /\ ret.resp.transport = "ok"

\* the success statuses of HTTP
C13_SuccessStatuses == 200..299

\* DownloadFile went on to write the body: it took one of its two write
\* paths, and when the body arrived whole and the disk took it, the file is
\* the body
C13_Proceeds ==
    /\ ret.path \in {"buffered", "streamed"}
    /\ (ret.resp.complete /\ ret.resp.disk = "ok") => (ret.err = Nil /\ zip = ret.resp.body)

C13_BadStatus == ret.err = "bad status: " \o Status(ret.resp.status) /\ zip = ret.old

\* C13 as stated: every response whose status is not a success status makes
\* DownloadFile return "bad status: <status line>" and leave the destination
\* as it was, and every success status makes it go on to write the body.
C13_Original ==
    C13_Answered => IF ret.resp.status \notin C13_SuccessStatuses THEN C13_BadStatus ELSE C13_Proceeds

\* C13: every response whose status is not 200 OK, the other success statuses
\* included, makes DownloadFile return "bad status: <status line>" and leave
\* the destination as it was; status 200 makes it go on to write the body.
C13_Amended ==
    C13_Answered => IF ret.resp.status # 200 THEN C13_BadStatus ELSE C13_Proceeds

C13_Witness ==
    /\ C13_Answered /\ ret.resp.status = 203
    /\ ret.err = "bad status: 203 Non-Authoritative Information"
    /\ ret.old.kind = "zip" /\ zip = ret.old

\* ------------------------------------------------------------ C14
\* the bytes by which a declared length exceeds 2 x 1024^3
C14_Excess(len) == (len[1] - 2 * 1024 * 16) * 65536 + len[2]

C14_Above(len) == len # LengthUnknown /\ C14_Excess(len) > 0

\* C14: a response with status 200 is streamed exactly when its declared
\* length is strictly greater than 2 x 1024^3 bytes; a declared length equal
\* to it or below it, and an absent one, take the buffered path.
C14_Threshold ==
    (C13_Answered /\ ret.resp.status = 200) =>
        ret.path = (IF C14_Above(ret.resp.contentLength) THEN "streamed" ELSE "buffered")

C14_Witness ==
    /\ C13_Answered /\ ret.resp.status = 200
    /\ ret.resp.contentLength # LengthUnknown /\ C14_Excess(ret.resp.contentLength) = 0
    /\ ret.path = "buffered" /\ ret.err = Nil /\ zip = ret.resp.body

\* ------------------------------------------------------------ C15
\* C15: a download that succeeds leaves at the destination exactly the body
\* transferred, whatever was there before, on the buffered path and on the
\* streamed path alike.
C15_SameContent ==
    (ret.fn = "DownloadFile" /\ ret.err = Nil) =>
        /\ ret.path \in {"buffered", "streamed"}
        /\ zip = ret.resp.body

C15_Witness ==
    /\ ret.fn = "DownloadFile" /\ ret.err = Nil /\ ret.path = "streamed"
    /\ ret.old.kind = "zip" /\ ret.old # ret.resp.body
    /\ zip = ret.resp.body

\* ------------------------------------------------------------ C16
\* every byte of the response has arrived
C16_TransferComplete == net.headers /\ net.arrived = Len(Chunks(net.resp.body))

\* the context ended while DownloadFile waited for the response or read the
\* body, the transfer not complete
C16_Interrupted ==
    /\ call = "DownloadFile" /\ pc \in {"request", "copy", "readall"}
    /\ net.ctx # "live"
    /\ ~C16_TransferComplete

C16_ReturnedError == call = "DownloadFile" /\ pc = "idle" /\ result # Nil

\* C16: when the context of DownloadFile is cancelled or its deadline passes
\* before the transfer has completed, DownloadFile eventually returns an
\* error, which ends its copying, and it never sends a second request.
C16_CancelStops ==
    /\ C16_Interrupted ~> C16_ReturnedError
    /\ [](net.requests <= 1)

C16_Witness ==
    /\ C16_ReturnedError
    /\ net.ctx = "cancelled" /\ net.conn = "up"
    /\ net.copied = 1 /\ net.arrived = 1 /\ Len(Chunks(net.resp.body)) = 2
    /\ result = Join("failed to copy content to file", "context canceled")
    /\ net.requests = 1

\* ------------------------------------------------------------ C17
\* the errors a caller can tell to be timeouts: errors.Is(err,
\* context.DeadlineExceeded) holds of them
C17_TimeoutClass ==
    {DeadlineExceeded}
    \cup {Join(m, DeadlineExceeded) :
            m \in {"failed to send request", "failed to read response body",
                   "failed to copy content to file"}}

\* C17, for the download: when the deadline was exceeded during the download
\* of a run, what SetupDatabase returns to its caller is a timeout-class
\* error, which no other failure of the download is.
C17_DeadlineIsDistinct ==
    (call = "SetupDatabase" /\ pc = "idle" /\ ret.fn = "DownloadFile"
     /\ ret.err \in C17_TimeoutClass) => result \in C17_TimeoutClass

\* ------------------------------------------------------------ C18
\* an entry whose extension is ".csv" in any letter case
C18_IsCSV(name) == name # <<>> /\ name[Len(name)] \in {".csv", ".CSV"}

\* the base name: what follows the last separator
C18_Basename(name) ==
    LET S == {i \in 1..Len(name) : name[i] = "/"}
        k == IF S = {} THEN 0 ELSE CHOOSE i \in S : \A j \in S : j <= i
    IN SubSeq(name, k + 1, Len(name))

C18_Matches == {i \in 1..Len(zip.entries) : C18_IsCSV(zip.entries[i].name)}

\* C18: of an archive that opens, ExtractCSVFromZip takes the first entry, in
\* the archive's own order, whose extension is ".csv" ignoring case; it
\* writes that entry's bytes unchanged to <destination>/<base name of the
\* entry>, the destination created if it was absent, touches nothing else,
\* and returns that path.  It returns "no CSV file found" exactly of an
\* archive that opens and has no such entry, and then writes no file.
C18_FirstCSVEntryExtracted ==
    ret.fn = "ExtractCSVFromZip" =>
        /\ (zip.kind = "zip" /\ ret.io = "ok" /\ C18_Matches # {}) =>
              LET i == CHOOSE m \in C18_Matches : \A j \in C18_Matches : m <= j
                  name == C18_Basename(zip.entries[i].name)
              IN /\ ret.err = Nil
                 /\ ret.path = name
                 /\ ret.exists
                 /\ DOMAIN ret.after = (DOMAIN ret.before) \cup {name}
                 /\ ret.after[name] = zip.entries[i].text
                 /\ \A n \in (DOMAIN ret.before) \ {name} : ret.after[n] = ret.before[n]
        /\ (zip.kind = "zip" /\ ret.io \notin {"openfail", "mkdirfail"} /\ C18_Matches = {}) =>
              ret.err = "no CSV file found in zip"
        /\ ret.err = "no CSV file found in zip" =>
              /\ zip.kind = "zip" /\ C18_Matches = {}
              /\ ret.after = ret.before /\ ret.path = <<>>

\* two ".csv" entries, the first of them later in name order and below a
\* directory of the archive, extracted into a directory that did not exist
C18_Witness ==
    /\ ret.fn = "ExtractCSVFromZip" /\ ret.err = Nil
    /\ zip.kind = "zip" /\ Len(zip.entries) = 2 /\ C18_Matches = {1, 2}
    /\ zip.entries[1].name # ret.path
    /\ ret.path = NameRev2
    /\ DOMAIN ret.before = {} /\ DOMAIN ret.after = {NameRev2}

\* ------------------------------------------------------------ C19
C19_Lifts == {"Squat", "Bench", "Deadlift"}

\* the three attempts of a lift, as the record has them
C19_Attempts(r, lift) == <<r[lift \o "1Kg"], r[lift \o "2Kg"], r[lift \o "3Kg"]>>

C19_Made(r, lift) == Cardinality({k \in 1..3 : C19_Attempts(r, lift)[k] > 0})

\* the stores in which a calculator's output is to be found: the open
\* transaction once the calculator ran in it, the committed store once
\* UpdateAllMetrics returned without error
C19_StoresAfter(calc) ==
    IF calc \notin Range(calcTrace) THEN {}
    ELSE IF pc = "calc" /\ tx # NoTx THEN {tx}
    ELSE IF pc = "idle" /\ ret.fn = "UpdateAllMetrics" /\ ret.err = Nil THEN {db}
    ELSE {}

\* the rows of lifter_metrics that belong to a record
C19_RowsOf(st, r) ==
    {j \in 1..Len(st.lifter_metrics) :
       st.lifter_metrics[j].ID = r.ID /\ st.lifter_metrics[j].Date = r.Date}

\* C19: after the SuccessfulAttempts calculator every record has its row of
\* lifter_metrics, in which each per-lift success count is in {0,1,2,3} and
\* is the number of that lift's three attempts with a weight above zero, and
\* TotalSuccessfulAttempts is the sum of the three counts.
C19_SuccessCounts ==
    \A st \in C19_StoresAfter("SuccessfulAttempts") :
      \A i \in 1..Len(st.records) :
        LET r == st.records[i]
        IN /\ C19_RowsOf(st, r) # {}
           /\ \A j \in C19_RowsOf(st, r) :
                LET lm == st.lifter_metrics[j]
                IN /\ \A lift \in C19_Lifts :
                        /\ lm["Successful" \o lift \o "Attempts"] \in 0..3
                        /\ lm["Successful" \o lift \o "Attempts"] = C19_Made(r, lift)
                   /\ lm.TotalSuccessfulAttempts
                        = C19_Made(r, "Squat") + C19_Made(r, "Bench") + C19_Made(r, "Deadlift")

\* a failed, a skipped and a made bench attempt, counted inside the transaction
C19_Witness ==
    /\ pc = "calc" /\ calcTrace # <<>> /\ calcTrace[Len(calcTrace)] = "SuccessfulAttempts"
    /\ C19_Attempts(tx.records[1], "Bench") = <<-105, 0, 100>>
    /\ tx.lifter_metrics[1].SuccessfulBenchAttempts = 1
    /\ tx.lifter_metrics[1].TotalSuccessfulAttempts = 6

\* ------------------------------------------------------------ C20
C20_Abs(x) == IF x < 0 THEN 0 - x ELSE x

\* m, the largest absolute weight of a lift's three attempts
C20_Max(r, lift) ==
    LET S == {C20_Abs(C19_Attempts(r, lift)[k]) : k \in 1..3}
    IN CHOOSE m \in S : \A x \in S : x <= m

C20_Perc(lm, lift) == <<lm[lift \o "1Perc"], lm[lift \o "2Perc"], lm[lift \o "3Perc"]>>

\* C20: after the LiftDifferences calculator, for every record and lift with
\* m the largest absolute weight of the three attempts: if m = 0 the three
\* percentages are 0, and if m > 0 the percentage of attempt k is
\* |attempt k| / m x 100, which is exactly 100 for an attempt of absolute
\* weight m, failed attempts rated by their absolute weight.
C20_Percentages ==
    \A st \in C19_StoresAfter("LiftDifferences") :
      \A i \in 1..Len(st.records) :
        LET r == st.records[i]
        IN /\ C19_RowsOf(st, r) # {}
           /\ \A j \in C19_RowsOf(st, r), lift \in C19_Lifts, k \in 1..3 :
                LET p == C20_Perc(st.lifter_metrics[j], lift)[k]
                    a == C20_Abs(C19_Attempts(r, lift)[k])
                    m == C20_Max(r, lift)
                IN /\ p # NULL /\ p[2] > 0
                   /\ IF m = 0 THEN p[1] = 0
                      ELSE /\ p[1] * m = a * 100 * p[2]
                           /\ a = m => p = <<100, 1>>

\* the failed first deadlift is the heaviest: it is rated 100, the made third
\* one 100 / 105 x 100
C20_Witness ==
    /\ pc = "idle" /\ ret.fn = "UpdateAllMetrics" /\ ret.err = Nil
    /\ C19_Attempts(db.records[1], "Deadlift") = <<-105, 0, 100>>
    /\ C20_Perc(db.lifter_metrics[1], "Deadlift") = <<<<100, 1>>, <<0, 1>>, <<2000, 21>>>>

\* ------------------------------------------------------------ C21
\* the attempts of a lift that are rated 100 in a row of lifter_metrics
C21_Full(lm, lift) == {k \in 1..3 : C20_Perc(lm, lift)[k] = <<100, 1>>}

C21_InRange(lm, lift) ==
    \A k \in 1..3 :
      LET p == C20_Perc(lm, lift)[k]
      IN p # NULL /\ p[2] > 0 /\ 0 <= p[1] /\ p[1] <= 100 * p[2]

C21_AllZero(lm, lift) == \A k \in 1..3 : C20_Perc(lm, lift)[k] = <<0, 1>>

\* the record a row of lifter_metrics belongs to
C21_RecordOf(st, lm) ==
    st.records[CHOOSE i \in 1..Len(st.records) :
                 st.records[i].ID = lm.ID /\ st.records[i].Date = lm.Date]

C21_NoWeight(r, lift) == \A k \in 1..3 : C19_Attempts(r, lift)[k] = 0

\* C21 as stated: in every row of lifter_metrics the pipeline produced, each
\* percentage is in [0,100] and each lift has exactly one attempt rated 100,
\* unless its three weights are zero, and then its three percentages are 0.
C21_Original ==
    \A st \in C19_StoresAfter("LiftDifferences") :
      \A j \in 1..Len(st.lifter_metrics), lift \in C19_Lifts :
        LET lm == st.lifter_metrics[j]
        IN /\ C21_InRange(lm, lift)
           /\ IF C21_NoWeight(C21_RecordOf(st, lm), lift) THEN C21_AllZero(lm, lift)
              ELSE Cardinality(C21_Full(lm, lift)) = 1

\* C21: in every row of lifter_metrics the pipeline produced, each percentage
\* is in [0,100] and each lift has at least one attempt rated 100, every
\* attempt of the largest absolute weight being rated 100, unless its three
\* weights are zero, and then its three percentages are 0.
C21_Amended ==
    \A st \in C19_StoresAfter("LiftDifferences") :
      \A j \in 1..Len(st.lifter_metrics), lift \in C19_Lifts :
        LET lm == st.lifter_metrics[j]
            r == C21_RecordOf(st, lm)
        IN /\ C21_InRange(lm, lift)
           /\ IF C21_NoWeight(r, lift) THEN C21_AllZero(lm, lift)
              ELSE /\ C21_Full(lm, lift) # {}
                   /\ C21_Full(lm, lift)
                        = {k \in 1..3 : C20_Abs(C19_Attempts(r, lift)[k]) = C20_Max(r, lift)}

\* a squat failed twice at the same weight and then not taken: two attempts
\* are rated 100
C21_Witness ==
    /\ pc = "idle" /\ ret.fn = "UpdateAllMetrics" /\ ret.err = Nil
    /\ C19_Attempts(db.records[1], "Squat") = <<-105, -105, 0>>
    /\ C21_Full(db.lifter_metrics[1], "Squat") = {1, 2}

\* ------------------------------------------------------------ C22
C22_RowsOf(st, r) == {j \in 1..Len(st.max_lifts) : st.max_lifts[j].ID = r.ID}

\* C22: after the MaxLifts calculator the max_lifts row of every record of
\* event type 'SBD' holds the record's best squat, bench, deadlift and total,
\* and the row of every record of event type 'B' holds its best bench and
\* total only, its squat and deadlift fields unset.
C22_SplitByEvent ==
    \A st \in C19_StoresAfter("MaxSuccessfulAttempts") :
      \A i \in 1..Len(st.records) :
        LET r == st.records[i]
        IN r.Event \in {"SBD", "B"} =>
             /\ C22_RowsOf(st, r) # {}
             /\ \A j \in C22_RowsOf(st, r) :
                  LET ml == st.max_lifts[j]
                  IN /\ ml.Best3BenchKg = <<r.Best3BenchKg, 1>>
                     /\ ml.TotalKg = <<r.TotalKg, 1>>
                     /\ IF r.Event = "SBD"
                        THEN /\ ml.Best3SquatKg = <<r.Best3SquatKg, 1>>
                             /\ ml.Best3DeadliftKg = <<r.Best3DeadliftKg, 1>>
                        ELSE /\ ml.Best3SquatKg = NULL
                             /\ ml.Best3DeadliftKg = NULL

\* ------------------------------------------------------------ C23
\* the lifter_metrics rows of an athlete's records of one event type in which
\* the percentage named is greater than 0
C23_Counted(st, a, event, perc) ==
    SelectSeq(st.lifter_metrics,
              LAMBDA lm : /\ lm.Name = a.Name /\ lm.Equipment = a.Equipment
                          /\ C21_RecordOf(st, lm).Event = event
                          /\ lm[perc] # NULL /\ lm[perc][1] > 0)

C23_Average(st, a, event, perc) ==
    LET rows == C23_Counted(st, a, event, perc)
    IN AVG([i \in 1..Len(rows) |-> rows[i][perc]])

C23_SBDPercs ==
    {"Squat1Perc", "Squat2Perc", "Squat3Perc", "Bench1Perc", "Bench2Perc", "Bench3Perc",
     "Deadlift1Perc", "Deadlift2Perc", "Deadlift3Perc"}

\* C23: AggregatedMetrics averages each athlete's percentages in two
\* groupings, over the 'SBD' records for aggregated_metrics_sbd and over the
\* 'B' records for aggregated_metrics_bench, and each average is taken over
\* the rows only in which that percentage is greater than 0.
C23_AveragesOverPositive ==
    \A st \in C19_StoresAfter("AggregatedMetrics.calculateBench") :
      /\ \A j \in 1..Len(st.aggregated_metrics_sbd), perc \in C23_SBDPercs :
           LET a == st.aggregated_metrics_sbd[j]
           IN a["Avg" \o perc] = C23_Average(st, a, "SBD", perc)
      /\ \A j \in 1..Len(st.aggregated_metrics_bench), perc \in {"Bench1Perc", "Bench2Perc", "Bench3Perc"} :
           LET a == st.aggregated_metrics_bench[j]
           IN a["Avg" \o perc] = C23_Average(st, a, "B", perc)

\* ------------------------------------------------------------ C24
C24_Keys(rows) == {<<rows[j].ID, rows[j].Date>> : j \in 1..Len(rows)}

\* the one row of a record carries what both calculators write
C24_RowComplete(lm, r) ==
    /\ \A lift \in C19_Lifts :
         /\ lm["Successful" \o lift \o "Attempts"] = C19_Made(r, lift)
         /\ \A k \in 1..3 : C20_Perc(lm, lift)[k] # NULL
         /\ lm[lift \o "1To2Kg"]
              = <<C20_Abs(C19_Attempts(r, lift)[2]) - C20_Abs(C19_Attempts(r, lift)[1]), 1>>
         /\ lm[lift \o "2To3Kg"]
              = <<C20_Abs(C19_Attempts(r, lift)[3]) - C20_Abs(C19_Attempts(r, lift)[2]), 1>>
    /\ lm.TotalSuccessfulAttempts
         = C19_Made(r, "Squat") + C19_Made(r, "Bench") + C19_Made(r, "Deadlift")

C24_Committed == pc = "idle" /\ ret.fn = "UpdateAllMetrics" /\ ret.err = Nil

C24_OneRowEach ==
    C24_Committed =>
      \A i \in 1..Len(db.records) :
        LET r == db.records[i]
        IN /\ Cardinality(C19_RowsOf(db, r)) = 1
           /\ \A j \in C19_RowsOf(db, r) : C24_RowComplete(db.lifter_metrics[j], r)

\* the step in which LiftDifferences runs
C24_LiftDifferencesRuns ==
    /\ pc = "calc" /\ pc' = "calc"
    /\ calcTrace' = Append(calcTrace, "LiftDifferences")

\* C24: after a committed UpdateAllMetrics every record has exactly one row
\* of lifter_metrics with its key, carrying the success counts and the
\* percentages and kg deltas; and LiftDifferences creates no row: it fills
\* rows that SuccessfulAttempts wrote earlier in the same transaction, which
\* are the rows whose percentages are still unset.
C24_SharedRow ==
    /\ []C24_OneRowEach
    /\ [][C24_LiftDifferencesRuns =>
            /\ "SuccessfulAttempts" \in Range(calcTrace)
            /\ Len(tx'.lifter_metrics) = Len(tx.lifter_metrics)
            /\ \A j \in 1..Len(tx.lifter_metrics) :
                 /\ tx'.lifter_metrics[j].ID = tx.lifter_metrics[j].ID
                 /\ tx'.lifter_metrics[j].Date = tx.lifter_metrics[j].Date
                 /\ tx'.lifter_metrics[j] # tx.lifter_metrics[j] =>
                      tx.lifter_metrics[j].Squat1Perc = NULL]_vars

\* the second committed run over the same two records: still one row each
C24_Witness ==
    /\ C24_Committed /\ sameRuns = 2
    /\ Len(db.records) = 2 /\ Len(db.lifter_metrics) = 2
    /\ C24_Keys(db.lifter_metrics) = C24_Keys(db.records)

\* ------------------------------------------------------------ C25
\* the store holds the loaded and computed generation of the local CSV
C25_HoldsLocalCSV ==
    LET found == FindCSVFile(dataDir)
    IN /\ found.err = Nil
       /\ dataDir[found.path].ok
       /\ IsGenerationOf(db, dataDir[found.path].rows)

\* C25: a failed refresh is never recorded as done: between SetupDatabase
\* runs, whenever the revision in the local CSV's file name equals the
\* revision a remote page announces (so that the next gate answers "up to
\* date"), the store holds the fully loaded and computed generation of that
\* CSV.
C25_FailedRefreshIsNotDone ==
    \A page \in Pages :
        (pc = "idle" /\ RevisionsEqual(dataDir, page)
           /\ checkForUpdate(dataDir, page) = [needsUpdate |-> FALSE, err |-> Nil])
            => C25_HoldsLocalCSV

\* ------------------------------------------------------------ C26
\* the path ExtractCSVFromZip returned in the running SetupDatabase run
C26_ExtractedPath == Base(FirstCSVEntry(zip.entries)[1].name)

\* C26: in every SetupDatabase run that reaches the load stage, FindCSVFile
\* succeeds and returns exactly the path ExtractCSVFromZip wrote in that
\* run, whatever entry name the extractor accepted.
C26_LoadsWhatWasExtracted ==
    (call = "SetupDatabase" /\ pc = "load")
        => FindCSVFile(dataDir) = [path |-> C26_ExtractedPath, err |-> Nil]

\* ------------------------------------------------------------ C27
\* C27: whenever DownloadFile returns an error, on either download path, the
\* file at the destination is what it was before the call: absent if it was
\* absent, otherwise of unchanged content.
C27_FailureKeepsDestination ==
    (call = "DownloadFile" /\ ret.fn = "DownloadFile" /\ ret.err # Nil) => zip = ret.old

\* ------------------------------------------------------------ C28
\* the positions inside PopulateDatabase and UpdateAllMetrics at which the
\* transaction the function opened is in use
C28_Inside == pc \in {"insert", "calc"}

MaxReaders == 2

Readers == 1..MaxReaders

\* everything but the serving layer's state and the store
ServerUntouched == <<pc, call, result, dataDir, zip, tx, records, idx, calculators, gate, trace,
                     calcTrace, dbAtStart, commits, dbAtCall, ret, sameRuns, net, req>>

ErrNoRows == "no rows in result set"

\* GetAllLifters: SELECT DISTINCT Name FROM records ORDER BY Name
GetAllLifters(store, io) ==
    IF io = "deadline" THEN [names |-> <<>>, err |-> Join("querying lifters", DeadlineExceeded)]
    ELSE IF store = NoDB THEN [names |-> <<>>, err |-> Join("querying lifters", "no such table: records")]
    ELSE LET lifters == SelectSeq(TextOrder,
                                  LAMBDA t : \E i \in 1..Len(store.records) : store.records[i].Name = t)
         IN IF Len(lifters) = 0 THEN [names |-> <<>>, err |-> ErrNoRows]
            ELSE [names |-> lifters, err |-> Nil]

\* a reader that does not wait for the writer
CanRLock_Always(m) == TRUE

\* sync.RWMutex: RLock waits while a writer holds the mutex, Lock waits
\* while anyone holds it
CanRLock(m) == ~m.w

CanLock(m) == ~m.w /\ m.r = 0

\* the slice header of s.lifterNames between the two words of its
\* assignment: the new array with the old length
HalfStored(old, new) == [i \in 1..Len(old) |-> IF i <= Len(new) THEN new[i] ELSE "?"]

\* NewServer, lines 22-33: the server with its first updateLifterNames begun
NewServer ==
    /\ srv = NoServer
    /\ srv' = [up |-> "starting", lifterNames |-> <<>>, mutex |-> [w |-> FALSE, r |-> 0],
               task |-> [pc |-> "query", names |-> <<>>, err |-> Nil],
               readers |-> [i \in Readers |-> [pc |-> "idle", got |-> <<>>]],
               last |-> <<>>]
    /\ UNCHANGED <<db, ServerUntouched>>

\* periodicallyUpdateLifterNames: the ticker fires
Tick ==
    /\ srv.up = "serving" /\ srv.task.pc = "idle"
    /\ srv' = [srv EXCEPT !.task = [pc |-> "query", names |-> <<>>, err |-> Nil]]
    /\ UNCHANGED <<db, ServerUntouched>>

\* updateLifterNames, lines 43-46; a failed first update fails NewServer, a
\* failed periodic one is logged
Query ==
    /\ srv.up \in {"starting", "serving"} /\ srv.task.pc = "query"
    /\ \E io \in {"ok", "deadline"} :
         LET g == GetAllLifters(db, io)
         IN IF g.err # Nil
            THEN srv' = [srv EXCEPT !.task = [pc |-> "idle", names |-> <<>>, err |-> g.err],
                                    !.up = IF @ = "starting" THEN "failed" ELSE @]
            ELSE srv' = [srv EXCEPT !.task = [pc |-> "lock", names |-> g.names, err |-> Nil]]
    /\ UNCHANGED <<db, ServerUntouched>>

\* updateLifterNames, line 48
Lock ==
    /\ srv.up \in {"starting", "serving"} /\ srv.task.pc = "lock"
    /\ CanLock(srv.mutex)
    /\ srv' = [srv EXCEPT !.mutex.w = TRUE, !.task.pc = "store"]
    /\ UNCHANGED <<db, ServerUntouched>>

\* updateLifterNames, line 49: the assignment of a slice, word by word
Store ==
    /\ srv.up \in {"starting", "serving"}
    /\ \/ /\ srv.task.pc = "store"
          /\ srv' = [srv EXCEPT !.lifterNames = HalfStored(@, srv.task.names), !.task.pc = "stored"]
       \/ /\ srv.task.pc = "stored"
          /\ srv' = [srv EXCEPT !.lifterNames = srv.task.names, !.task.pc = "unlock"]
    /\ UNCHANGED <<db, ServerUntouched>>

\* updateLifterNames, lines 50-52; NewServer goes on to start the periodic
\* task and the routes
Unlock ==
    /\ srv.up \in {"starting", "serving"} /\ srv.task.pc = "unlock"
    /\ srv' = [srv EXCEPT !.mutex.w = FALSE, !.task.pc = "idle", !.last = srv.task.names,
                          !.up = "serving"]
    /\ UNCHANGED <<db, ServerUntouched>>

\* GetLifterNames, line 62
RLock(i) ==
    /\ srv.up = "serving" /\ srv.readers[i].pc = "idle"
    /\ CanRLock(srv.mutex)
    /\ srv' = [srv EXCEPT !.mutex.r = @ + 1, !.readers[i].pc = "rlocked"]
    /\ UNCHANGED <<db, ServerUntouched>>

\* GetLifterNames, line 64: the value to return
Read(i) ==
    /\ srv.up = "serving" /\ srv.readers[i].pc = "rlocked"
    /\ srv' = [srv EXCEPT !.readers[i] = [pc |-> "read", got |-> srv.lifterNames]]
    /\ UNCHANGED <<db, ServerUntouched>>

\* GetLifterNames, line 63: the deferred RUnlock, and GetLifters answers
RUnlock(i) ==
    /\ srv.up = "serving" /\ srv.readers[i].pc = "read"
    /\ srv' = [srv EXCEPT !.mutex.r = @ - 1, !.readers[i] = [pc |-> "idle", got |-> <<>>]]
    /\ UNCHANGED <<db, ServerUntouched>>

\* PopulateDatabase on a fresh store, committed
RECURSIVE PopulateDatabase(_, _)
PopulateDatabase(store, recs) ==
    IF recs = <<>> THEN store
    ELSE PopulateDatabase([store EXCEPT !.records = Append(@, WithID(recs[1], NewUUID(store)))],
                          Tail(recs))

\* a pipeline run that commits while the server is up, as the serving layer
\* sees it: the store holds another generation
Reload ==
    /\ pc = "idle" /\ srv # NoServer
    /\ \E ds \in ArchiveDatasets : db' = PopulateDatabase(EmptyStore, ds)
    /\ db' # db
    /\ UNCHANGED <<srv, ServerUntouched>>

\* the store before the server is constructed
InitialLoad ==
    /\ pc = "idle" /\ srv = NoServer /\ db = NoDB
    /\ \E ds \in ArchiveDatasets : db' = PopulateDatabase(EmptyStore, ds)
    /\ UNCHANGED <<srv, ServerUntouched>>

NextCache ==
    \/ InitialLoad
    \/ NewServer
    \/ Tick
    \/ Query
    \/ Lock
    \/ Store
    \/ Unlock
    \/ \E i \in Readers : RLock(i)
    \/ \E i \in Readers : Read(i)
    \/ \E i \in Readers : RUnlock(i)
    \/ Reload

SpecCache == Init /\ [][NextCache]_vars

\* ------------------------------------------------------------ C29
C29_Up == srv # NoServer

\* C29: under any interleaving of GetLifterNames readers with the first and
\* the periodic refresh, a reader obtains the complete list of the most
\* recently completed successful refresh, never a half-written one; a
\* refresh that fails leaves the cache as it was; the write excludes every
\* read while reads overlap; and no step of the serving layer changes the
\* store.
C29_NameCache ==
    /\ [](C29_Up => \A i \in Readers :
            srv.readers[i].pc = "read" => srv.readers[i].got = srv.last)
    /\ [](C29_Up /\ srv.task.pc \in {"idle", "query", "lock"} => srv.lifterNames = srv.last)
    /\ [](C29_Up /\ srv.mutex.w => srv.mutex.r = 0)
    /\ [](C29_Up => srv.mutex.r = Cardinality({i \in Readers : srv.readers[i].pc # "idle"}))
    /\ [][srv' # srv => db' = db]_vars

\* two readers hold the read lock at once and have the list of the last
\* successful refresh, after the store changed and a later refresh failed
C29_Witness ==
    /\ C29_Up /\ srv.mutex.r >= 2
    /\ \E i, j \in Readers :
         /\ i # j
         /\ srv.readers[i] = [pc |-> "read", got |-> <<"Ann", "Bob">>]
         /\ srv.readers[j] = srv.readers[i]
    /\ srv.task.pc = "idle" /\ srv.task.err # Nil
    /\ GetAllLifters(db, "ok").names # srv.last

\* ------------------------------------------------------------ package web
\* names and queries are sequences of characters here
numberOfMatches == 25

\* the longest name list of a search
MaxNames == 27

\* strings.ToLower
ToLower(s) ==
    [i \in 1..Len(s) |->
       CASE s[i] = "A" -> "a" [] s[i] = "B" -> "b" [] s[i] = "E" -> "e" [] s[i] = "L" -> "l"
         [] s[i] = "N" -> "n" [] s[i] = "O" -> "o" [] OTHER -> s[i]]

\* strings.Fields: the parts between runs of white space, none of them empty
RECURSIVE Fields(_)
Fields(s) ==
    LET t == TrimLeft(s)
    IN IF t = <<>> THEN <<>>
       ELSE LET stop == IF \E k \in 1..Len(t) : t[k] = " "
                        THEN CHOOSE k \in 1..Len(t) : t[k] = " " /\ \A j \in 1..(k - 1) : t[j] # " "
                        ELSE Len(t) + 1
            IN <<SubSeq(t, 1, stop - 1)>> \o Fields(SubSeq(t, stop, Len(t)))

\* strings.Contains
Contains(s, substr) ==
    \E i \in 0..(Len(s) - Len(substr)) : SubSeq(s, i + 1, i + Len(substr)) = substr

matchesAllWords(name, queryWords) ==
    LET lowerName == ToLower(name)
    IN \A k \in 1..Len(queryWords) : Contains(lowerName, queryWords[k])

\* handleSearch, lines 68-75: the loop with its break
RECURSIVE SearchLoop(_, _, _)
SearchLoop(names, queryWords, results) ==
    IF names = <<>> THEN results
    ELSE IF matchesAllWords(names[1], queryWords)
    THEN LET r == Append(results, names[1])
         IN IF Len(r) >= numberOfMatches THEN r ELSE SearchLoop(Tail(names), queryWords, r)
    ELSE SearchLoop(Tail(names), queryWords, results)

StatusOK == "200 OK"

\* the handler panics: net/http recovers, logs and closes the connection
\* without a response
Panic == "panic: runtime error: slice bounds out of range"

\* s.LifterNames[:high]: the bound is checked against the capacity; the
\* elements between length and capacity are those of the backing array,
\* empty strings where nothing was stored
SliceTo(names, capacity, high) ==
    IF high > capacity THEN [panic |-> TRUE, slice |-> <<>>]
    ELSE [panic |-> FALSE, slice |-> [i \in 1..high |-> IF i <= Len(names) THEN names[i] ELSE <<>>]]

\* handleSearch, lines 57-88, of a server with the given LifterNames
handleSearch(names, capacity, q) ==
    LET query == ToLower(TrimSpace(q))
        queryWords == Fields(query)
    IN IF Len(queryWords) = 0
       THEN LET first == SliceTo(names, capacity, numberOfMatches)
            IN IF first.panic THEN [status |-> Panic, results |-> <<>>]
               ELSE [status |-> StatusOK, results |-> first.slice]
       ELSE [status |-> StatusOK, results |-> SearchLoop(names, queryWords, <<>>)]

\* the lifters of the lists searched
NamePool == << <<"A", "n", "n", " ", "L", "e", "e">>, <<"B", "o", "b", " ", "L", "e", "e">>,
               <<"L", "e", "o">> >>

LifterNames(n, offset) == [i \in 1..n |-> NamePool[((i + offset) % Len(NamePool)) + 1]]

\* the values of the parameter q
Queries ==
    { <<>>, <<" ">>, <<"n">>, <<"L", "E">>, <<" ", "b", "O", " ">>, <<"l", "e", " ", " ", "a", "N">>,
      <<"z">>, <<"e", "o", " ", "b">> }

\* the spare capacity of the slice
SpareCapacities == {0, 32}

\* GET /api/search?q=...
CallHandleSearch ==
    /\ req.stage = "asked"
    /\ req' = [req EXCEPT !.stage = "answered",
                          !.resp = handleSearch(req.names, req.capacity, req.q)]
    /\ UNCHANGED <<srv, db, pc, call, result, dataDir, zip, tx, records, idx, calculators, gate, trace,
                   calcTrace, dbAtStart, commits, dbAtCall, ret, sameRuns, net>>

InitSearch ==
    /\ pc = "idle"
    /\ call = "none"
    /\ result = Nil
    /\ dataDir = [n \in {<<"db">>} |-> SubDir]
    /\ zip = NoFile
    /\ db = NoDB
    /\ tx = NoTx
    /\ records = <<>>
    /\ idx = 0
    /\ calculators = NewFeatureCalculator
    /\ gate = NoGate
    /\ trace = <<>>
    /\ calcTrace = <<>>
    /\ dbAtStart = NoDB
    /\ commits = 0
    /\ dbAtCall = NoDB
    /\ ret = NoRet
    /\ sameRuns = 0
    /\ net = NoNet
    /\ srv = NoServer
    /\ req \in { [stage |-> "asked", names |-> LifterNames(n, offset), capacity |-> n + spare, q |-> q,
                  resp |-> [status |-> "none", results |-> <<>>]] :
                 n \in 0..MaxNames, offset \in {0, 1}, spare \in SpareCapacities, q \in Queries }

NextSearch == CallHandleSearch

SpecSearch == InitSearch /\ [][NextSearch]_vars

\* ------------------------------------------------------------ C30
C30_Min(a, b) == IF a <= b THEN a ELSE b

\* the words of a query: its parts between white space
C30_Words(q) == Fields(q)

\* the names of the list that contain every word, case-insensitively
C30_Matching(names, q) ==
    SelectSeq(names, LAMBDA name :
        \A k \in 1..Len(C30_Words(q)) : Contains(ToLower(name), ToLower(C30_Words(q)[k])))

C30_FirstOf(list) == SubSeq(list, 1, C30_Min(25, Len(list)))

\* C30: for every list of lifter names, of any length, and every query the
\* search handler completes with a response of at most 25 names in list
\* order: the first min(25, n) names of the list for a query without words,
\* otherwise the first names, up to 25, that contain every query word
\* case-insensitively.
C30_SearchAnswers ==
    req.stage = "answered" =>
        /\ req.resp.status = StatusOK
        /\ Len(req.resp.results) <= 25
        /\ req.resp.results = IF C30_Words(req.q) = <<>> THEN C30_FirstOf(req.names)
                              ELSE C30_FirstOf(C30_Matching(req.names, req.q))
====
